---- MODULE Spec2Model ----
(***************************************************************************)
(* Model of github.com/tendant/yamlenv, pkg/yamlenv/yamlenv.go:            *)
(* LoadConfig = validation, base YAML layer, optional local YAML layer,    *)
(* environment-variable walk over the target struct.                       *)
(*                                                                         *)
(* Go strings are sequences of one-character strings, so that ToUpper,     *)
(* ToLower, ReplaceAll, Index and concatenation are computed character by  *)
(* character as the standard library does.                                 *)
(***************************************************************************)
EXTENDS Integers, Sequences, FiniteSets, TLC

\* env .. docs: the environment and one LoadConfig call (docs, trace,
\* lookups, streams and target0 record what the call did);
\* world: what the sources of a repeated call are backed by;
\* first: the outcome of the first of two calls;
\* other: the locals of the other of two concurrent calls;
\* visits: the leaves the walk consulted, in order, each with its dotted path
\* and its environment key
VARIABLES env, pc, opts, target, target0, layer, data, err,
          streams, trace, lookups, docs, world, first, other, visits

vars == <<env, pc, opts, target, target0, layer, data, err,
          streams, trace, lookups, docs, world, first, other, visits>>

----------------------------------------------------------------------------
(* package strings / strconv                                               *)

LowerLetters ==
  <<"a","b","c","d","e","f","g","h","i","j","k","l","m",
    "n","o","p","q","r","s","t","u","v","w","x","y","z">>

UpperLetters ==
  <<"A","B","C","D","E","F","G","H","I","J","K","L","M",
    "N","O","P","Q","R","S","T","U","V","W","X","Y","Z">>

Digits == <<"0","1","2","3","4","5","6","7","8","9">>

\* position of character c in the sequence s, 0 when absent (strings.Index + 1)
IndexOf(s, c) ==
  IF \E i \in 1..Len(s) : s[i] = c
  THEN CHOOSE i \in 1..Len(s) : s[i] = c /\ \A j \in 1..(i-1) : s[j] # c
  ELSE 0

ToUpperChar(c) ==
  IF IndexOf(LowerLetters, c) > 0 THEN UpperLetters[IndexOf(LowerLetters, c)] ELSE c

ToLowerChar(c) ==
  IF IndexOf(UpperLetters, c) > 0 THEN LowerLetters[IndexOf(UpperLetters, c)] ELSE c

ToUpper(s) == [i \in 1..Len(s) |-> ToUpperChar(s[i])]

ToLower(s) == [i \in 1..Len(s) |-> ToLowerChar(s[i])]

\* strings.ReplaceAll(s, old, new) for a one-character old
RECURSIVE ReplaceAll(_, _, _)
ReplaceAll(s, old, new) ==
  IF s = <<>> THEN <<>>
  ELSE (IF Head(s) = old THEN new ELSE <<Head(s)>>) \o ReplaceAll(Tail(s), old, new)

\* value of a non-empty run of decimal digits, -1 when a character is no digit
RECURSIVE DigitsValue(_, _)
DigitsValue(s, acc) ==
  IF s = <<>> THEN acc
  ELSE IF IndexOf(Digits, Head(s)) = 0 THEN -1
  ELSE DigitsValue(Tail(s), acc * 10 + (IndexOf(Digits, Head(s)) - 1))

\* strconv.ParseInt(value, 10, 64): optional sign, then decimal digits only
ParseInt(s) ==
  LET neg  == s # <<>> /\ Head(s) = "-"
      body == IF s # <<>> /\ Head(s) \in {"+", "-"} THEN Tail(s) ELSE s
      mag  == IF body = <<>> THEN -1 ELSE DigitsValue(body, 0)
  IN IF mag < 0 THEN [ok |-> FALSE, v |-> 0]
     ELSE [ok |-> TRUE, v |-> IF neg THEN 0 - mag ELSE mag]

BoolTrueTokens ==
  { <<"1">>, <<"t">>, <<"T">>, <<"T","R","U","E">>, <<"t","r","u","e">>,
    <<"T","r","u","e">> }

BoolFalseTokens ==
  { <<"0">>, <<"f">>, <<"F">>, <<"F","A","L","S","E">>, <<"f","a","l","s","e">>,
    <<"F","a","l","s","e">> }

\* strconv.ParseBool taking true and false in any letter case
ParseBool_anyCase(s) ==
  IF s = <<"1">> \/ ToLower(s) = <<"t","r","u","e">> THEN [ok |-> TRUE, v |-> TRUE]
  ELSE IF s = <<"0">> \/ ToLower(s) = <<"f","a","l","s","e">>
    THEN [ok |-> TRUE, v |-> FALSE]
  ELSE [ok |-> FALSE, v |-> FALSE]

\* strconv.ParseBool
ParseBool(s) ==
  IF s \in BoolTrueTokens THEN [ok |-> TRUE, v |-> TRUE]
  ELSE IF s \in BoolFalseTokens THEN [ok |-> TRUE, v |-> FALSE]
  ELSE [ok |-> FALSE, v |-> FALSE]

\* strconv.ParseUint(value, 10, 64): decimal digits only, no sign
ParseUint(s) ==
  LET mag == IF s = <<>> THEN -1 ELSE DigitsValue(s, 0)
  IN IF mag < 0 THEN [ok |-> FALSE, v |-> 0] ELSE [ok |-> TRUE, v |-> mag]

\* the number of leading decimal digits of s
RECURSIVE LeadDigits(_)
LeadDigits(s) ==
  IF s = <<>> \/ IndexOf(Digits, Head(s)) = 0 THEN 0 ELSE 1 + LeadDigits(Tail(s))

\* the number of leading characters of s that are neither a digit nor '.'
RECURSIVE LeadUnit(_)
LeadUnit(s) ==
  IF s = <<>> \/ Head(s) = "." \/ IndexOf(Digits, Head(s)) > 0 THEN 0
  ELSE 1 + LeadUnit(Tail(s))

\* time.ParseDuration's unit table, in nanoseconds.  The units "m" and "h"
\* (60e9 and 3600e9) lie beyond the integers of the runs and are left out:
\* the literals of the runs use no minutes, no hours and no fractions.
DurationUnits == { <<"n","s">>, <<"u","s">>, <<"m","s">>, <<"s">> }

unitMap(u) ==
  CASE u = <<"n","s">> -> 1
    [] u = <<"u","s">> -> 1000
    [] u = <<"m","s">> -> 1000000
    [] u = <<"s">>     -> 1000000000

\* time.ParseDuration: [-+]?([0-9]+[a-z]+)+, or "0"; the value is a number of
\* nanoseconds
ParseDuration(s) ==
  LET RECURSIVE parts(_, _)
      parts(t, acc) ==
        IF t = <<>> THEN [ok |-> TRUE, v |-> acc]
        ELSE
          LET n    == LeadDigits(t)
              rest == SubSeq(t, n + 1, Len(t))
              u    == LeadUnit(rest)
              unit == SubSeq(rest, 1, u)
          IN IF n = 0 THEN [ok |-> FALSE, v |-> 0]          \* invalid duration
             ELSE IF u = 0 THEN [ok |-> FALSE, v |-> 0]     \* missing unit
             ELSE IF unit \notin DurationUnits THEN [ok |-> FALSE, v |-> 0]
             ELSE parts(SubSeq(rest, u + 1, Len(rest)),
                        acc + DigitsValue(SubSeq(t, 1, n), 0) * unitMap(unit))
      neg  == s # <<>> /\ Head(s) = "-"
      body == IF s # <<>> /\ Head(s) \in {"+", "-"} THEN Tail(s) ELSE s
      r    == parts(body, 0)
  IN IF body = <<"0">> THEN [ok |-> TRUE, v |-> 0]
     ELSE IF body = <<>> THEN [ok |-> FALSE, v |-> 0]
     ELSE IF ~r.ok THEN r
     ELSE [ok |-> TRUE, v |-> IF neg THEN 0 - r.v ELSE r.v]

----------------------------------------------------------------------------
(* errors: a chain of wrapped messages, outermost first; <<>> is nil        *)

NoErr == <<>>

Msg(m, arg) == [msg |-> m, arg |-> arg]

\* fmt.Errorf("<m>: %w", inner)
Wrap(m, arg, inner) == <<Msg(m, arg)>> \o inner

----------------------------------------------------------------------------
(* the type of the struct LoaderOptions.Target points to.  Target is `any`,  *)
(* so the type is the caller's; the runs use one with a nested struct, a    *)
(* text, an integer and a boolean leaf, and a leaf of a kind setFieldValue  *)
(* does not support:                                                        *)
(*   type Config struct {                                                  *)
(*       App struct {                                                      *)
(*           Name string `yaml:"name"`                                      *)
(*           Port int    `yaml:"port"`                                      *)
(*       } `yaml:"app"`                                                     *)
(*       Debug bool     `yaml:"debug"`                                      *)
(*       Tags  []string `yaml:"tags"`                                       *)
(*   }                                                                     *)
(* A struct type is the sequence of its fields (reflect's Field(i)); a     *)
(* struct value is the sequence of its field values, in the same order.    *)

FieldType(name, tag, kind, fields) ==
  [name |-> name, tag |-> tag, kind |-> kind, fields |-> fields]

AppType ==
  << FieldType(<<"N","a","m","e">>, <<"n","a","m","e">>, "string", <<>>),
     FieldType(<<"P","o","r","t">>, <<"p","o","r","t">>, "int", <<>>) >>

ConfigType ==
  << FieldType(<<"A","p","p">>, <<"a","p","p">>, "struct", AppType),
     FieldType(<<"D","e","b","u","g">>, <<"d","e","b","u","g">>, "bool", <<>>),
     FieldType(<<"T","a","g","s">>, <<"t","a","g","s">>, "slice", <<>>) >>

\* every field taken for exported
IsExported_any(f) == TRUE

\* reflect.StructField.IsExported: the name starts with an upper-case letter
IsExported(f) == f.name # <<>> /\ IndexOf(UpperLetters, f.name[1]) > 0

\* the zero value of a struct type
RECURSIVE ZeroStruct(_)
ZeroStruct(typ) ==
  [i \in 1..Len(typ) |->
     CASE typ[i].kind = "struct" -> ZeroStruct(typ[i].fields)
       [] typ[i].kind = "string" -> <<>>
       [] typ[i].kind \in {"int", "int8", "uint8", "duration"} -> 0
       [] typ[i].kind = "bool"   -> FALSE
       [] OTHER                  -> <<>>]

ZeroConfig == ZeroStruct(ConfigType)

\* a target the caller filled with defaults before the call
PresetConfig == << << <<"o","l","d">>, 5 >>, TRUE, << <<"p">> >> >>

\* the kinds of value a caller passes as LoaderOptions.Target
TargetKinds == {"nil", "nil_ptr", "struct_value", "ptr_to_int", "ptr_to_struct"}

\* reflect.ValueOf(t).Kind()
reflectKind(t) ==
  CASE t = "nil"          -> "invalid"
    [] t = "struct_value" -> "struct"
    [] OTHER              -> "ptr"

\* reflect.ValueOf(t).Elem().Kind(); Elem panics unless the kind is Ptr (or
\* Interface), and gives the zero Value (kind Invalid) for a nil pointer
reflectElemKind(t) ==
  CASE t = "nil_ptr"       -> "invalid"
    [] t = "ptr_to_int"    -> "int"
    [] t = "ptr_to_struct" -> "struct"
    [] OTHER               -> "panic"

----------------------------------------------------------------------------
(* YAML documents and gopkg.in/yaml.v3 Unmarshal (external library,        *)
(* modelled by its sparse-overwrite behaviour): a document is "malformed"  *)
(* or a map from dotted key paths to typed scalars.                        *)

K_app_name == <<"a","p","p",".","n","a","m","e">>
K_app_port == <<"a","p","p",".","p","o","r","t">>
K_debug    == <<"d","e","b","u","g">>
K_tags     == <<"t","a","g","s">>

Scalar(t, v) == [t |-> t, v |-> v]

\* the bytes of a stream: well-formed YAML holding a document, or not
Bytes(doc) == [syntax |-> TRUE, doc |-> doc]

Malformed == [syntax |-> FALSE, doc |-> << >>]

DocEmpty == << >>

DocFull ==
  (K_app_name :> Scalar("str", <<"t","e","s","t","a","p","p">>)) @@
  (K_app_port :> Scalar("int", 8080)) @@
  (K_debug    :> Scalar("bool", FALSE)) @@
  (K_tags     :> Scalar("seq", << <<"a">> >>))

DocPort == (K_app_port :> Scalar("int", 3000))

DocNameDebug ==
  (K_app_name :> Scalar("str", <<"l","o","c","a","l">>)) @@
  (K_debug    :> Scalar("bool", TRUE))

DocBadType ==
  (K_app_name :> Scalar("str", <<"b","a","d">>)) @@
  (K_app_port :> Scalar("str", <<"a","b","c">>))

Docs == {DocEmpty, DocFull, DocPort, DocNameDebug, DocBadType}

\* what a source's stream can hold
Datas == {Bytes(d) : d \in Docs} \cup {Malformed}

\* the document key of a field: the yaml tag without its options, or the
\* lower-cased field name
yamlKey(f) ==
  LET comma == IndexOf(f.tag, ",")
      name  == IF comma > 0 THEN SubSeq(f.tag, 1, comma - 1) ELSE f.tag
  IN IF name # <<>> THEN name ELSE ToLower(f.name)

yamlCompatible(kind, scalar) ==
  \/ kind = "string" /\ scalar.t = "str"
  \/ kind = "int"    /\ scalar.t = "int"
  \/ kind = "bool"   /\ scalar.t = "bool"
  \/ kind = "slice"  /\ scalar.t = "seq"

\* decode a document onto a struct value: a key the document defines
\* overwrites the field, a key it omits leaves the field alone; a scalar of
\* the wrong type leaves the field alone and is reported after the others
\* were decoded
RECURSIVE yamlDecodeStruct(_, _, _, _)
yamlDecodeStruct(doc, val, typ, path) ==
  LET RECURSIVE loop(_, _, _)
      loop(v, bad, i) ==
        IF i > Len(typ) THEN [val |-> v, bad |-> bad]
        ELSE
          LET f   == typ[i]
              key == IF path = <<>> THEN yamlKey(f) ELSE path \o <<".">> \o yamlKey(f)
          IN IF ~IsExported(f) \/ f.tag = <<"-">> THEN loop(v, bad, i + 1)
             ELSE IF f.kind = "struct" THEN
               LET r == yamlDecodeStruct(doc, v[i], f.fields, key)
               IN loop([v EXCEPT ![i] = r.val], bad \/ r.bad, i + 1)
             ELSE IF key \notin DOMAIN doc THEN loop(v, bad, i + 1)
             ELSE IF yamlCompatible(f.kind, doc[key])
               THEN loop([v EXCEPT ![i] = doc[key].v], bad, i + 1)
               ELSE loop(v, TRUE, i + 1)
  IN loop(val, FALSE, 1)

\* yaml.Unmarshal onto a zeroed struct: the target is reset before decoding
yamlUnmarshal_resetsTarget(d, val) ==
  IF ~d.syntax THEN [val |-> val, err |-> <<Msg("yaml: syntax error", <<>>)>>]
  ELSE LET r == yamlDecodeStruct(d.doc, ZeroConfig, ConfigType, <<>>)
       IN [val |-> r.val,
           err |-> IF r.bad THEN <<Msg("yaml: unmarshal errors", <<>>)>> ELSE NoErr]

\* yaml.Unmarshal(data, target)
yamlUnmarshal(d, val) ==
  IF ~d.syntax THEN [val |-> val, err |-> <<Msg("yaml: syntax error", <<>>)>>]
  ELSE LET r == yamlDecodeStruct(d.doc, val, ConfigType, <<>>)
       IN [val |-> r.val,
           err |-> IF r.bad THEN <<Msg("yaml: unmarshal errors", <<>>)>> ELSE NoErr]

----------------------------------------------------------------------------
(* the process environment (os.LookupEnv): a map from variable names to    *)
(* values, fixed for the run                                               *)

MaxEnvVars == 2

P_  == <<"P","_">>
DD  == <<"_","_">>

E_P_APP__NAME == <<"P","_","A","P","P","_","_","N","A","M","E">>
E_P_APP__PORT == <<"P","_","A","P","P","_","_","P","O","R","T">>
E_P_DEBUG     == <<"P","_","D","E","B","U","G">>
E_P_TAGS      == <<"P","_","T","A","G","S">>
E_APP__PORT   == <<"A","P","P","_","_","P","O","R","T">>
E_APP_DOT_PORT == <<"A","P","P",".","P","O","R","T">>

EnvNames ==
  {E_P_APP__NAME, E_P_APP__PORT, E_P_DEBUG, E_P_TAGS, E_APP__PORT, E_APP_DOT_PORT}

\* "1" is text, an integer and a boolean; "x" is text only
EnvValues == { <<"1">>, <<"x">> }

Envs ==
  UNION { [S -> EnvValues] :
            S \in {T \in SUBSET EnvNames : Cardinality(T) <= MaxEnvVars} }

----------------------------------------------------------------------------
(* the environment override walker                                         *)

\* getStructPath without the fallback to the field name
getStructPath_tagOnly(f, yamlTag) == yamlTag

\* getStructPath
getStructPath(f, yamlTag) ==
  IF yamlTag # <<>> /\ yamlTag # <<"-">> THEN yamlTag ELSE ToLower(f.name)

\* findEnvValue with the prefix left out of the key
findEnvKey_noPrefix(envPrefix, delimiter, path, normalizeDash) ==
  LET upper  == ToUpper(path)
      nested == IF delimiter # <<>> THEN ReplaceAll(upper, ".", delimiter) ELSE upper
  IN IF normalizeDash THEN ReplaceAll(nested, "-", <<"_">>) ELSE nested

\* findEnvValue with the prefix put in upper case like the path
findEnvKey_upperPrefix(envPrefix, delimiter, path, normalizeDash) ==
  LET upper  == ToUpper(path)
      nested == IF delimiter # <<>> THEN ReplaceAll(upper, ".", delimiter) ELSE upper
      dashed == IF normalizeDash THEN ReplaceAll(nested, "-", <<"_">>) ELSE nested
  IN ToUpper(envPrefix) \o dashed

\* findEnvValue with the key built from the field's own name instead of its
\* path
findEnvKey_ownName(envPrefix, delimiter, path, normalizeDash) ==
  LET dots  == {i \in 1..Len(path) : path[i] = "."}
      from  == IF dots = {} THEN 1
               ELSE (CHOOSE i \in dots : \A j \in dots : j <= i) + 1
      upper == ToUpper(SubSeq(path, from, Len(path)))
  IN envPrefix \o (IF normalizeDash THEN ReplaceAll(upper, "-", <<"_">>) ELSE upper)

\* findEnvValue, the key it builds
findEnvKey(envPrefix, delimiter, path, normalizeDash) ==
  LET upper  == ToUpper(path)
      nested == IF delimiter # <<>> THEN ReplaceAll(upper, ".", delimiter) ELSE upper
      dashed == IF normalizeDash THEN ReplaceAll(nested, "-", <<"_">>) ELSE nested
  IN envPrefix \o dashed

\* findEnvValue reading the variable with os.Getenv: an unset variable reads
\* as an empty one
findEnvValue_unsetIsEmpty(e, envPrefix, delimiter, path, normalizeDash) ==
  LET envKey == findEnvKey(envPrefix, delimiter, path, normalizeDash)
  IN IF envKey \in DOMAIN e
     THEN [value |-> e[envKey], exists |-> TRUE, key |-> envKey]
     ELSE [value |-> <<>>, exists |-> TRUE, key |-> envKey]

\* findEnvValue taking a variable set to the empty string for an unset one
findEnvValue_emptyIsUnset(e, envPrefix, delimiter, path, normalizeDash) ==
  LET envKey == findEnvKey(envPrefix, delimiter, path, normalizeDash)
  IN IF envKey \in DOMAIN e /\ e[envKey] # <<>>
     THEN [value |-> e[envKey], exists |-> TRUE, key |-> envKey]
     ELSE [value |-> <<>>, exists |-> FALSE, key |-> envKey]

\* findEnvValue: os.LookupEnv of the key
findEnvValue(e, envPrefix, delimiter, path, normalizeDash) ==
  LET envKey == findEnvKey(envPrefix, delimiter, path, normalizeDash)
  IN IF envKey \in DOMAIN e
     THEN [value |-> e[envKey], exists |-> TRUE, key |-> envKey]
     ELSE [value |-> <<>>, exists |-> FALSE, key |-> envKey]

\* reflect.Type.String of a leaf kind, as fmt's %v prints it
typeName(kind) ==
  CASE kind = "slice"    -> <<"[","]","s","t","r","i","n","g">>
    [] kind = "string"   -> <<"s","t","r","i","n","g">>
    [] kind = "int"      -> <<"i","n","t">>
    [] kind = "int8"     -> <<"i","n","t","8">>
    [] kind = "uint8"    -> <<"u","i","n","t","8">>
    [] kind = "bool"     -> <<"b","o","o","l">>
    [] kind = "duration" -> <<"t","i","m","e",".","D","u","r","a","t","i","o","n">>
    [] kind = "ptr"      -> <<"*","m","a","i","n",".","S","u","b">>

RECURSIVE Pow2(_)
Pow2(n) == IF n = 0 THEN 1 ELSE 2 * Pow2(n - 1)

\* reflect.Type.Bits of an integer kind (int is 64 bits wide on the build's
\* platforms)
Bits(kind) ==
  CASE kind = "int8"  -> 8
    [] kind = "uint8" -> 8
    [] kind = "int"   -> 64

\* reflect.Value.SetInt: the int64 is converted to the field's width, which
\* keeps its low bits (two's complement).  Values of the runs lie well within
\* 32 bits, so the conversion to a 64-bit field changes nothing.
SetInt(kind, x) ==
  IF Bits(kind) >= 32 THEN x
  ELSE LET m == Pow2(Bits(kind))
           h == Pow2(Bits(kind) - 1)
       IN ((x + h) % m) - h

\* reflect.Value.SetUint: the uint64 is converted to the field's width
SetUint(kind, x) ==
  IF Bits(kind) >= 32 THEN x ELSE x % Pow2(Bits(kind))

\* setFieldValue with a Duration field treated as the int64 its kind is
setFieldValue_durationAsInt(kind, old, value) ==
  CASE kind = "string" -> [v |-> value, err |-> NoErr]
    [] kind \in {"int", "int8", "duration"} ->
         LET r == ParseInt(value)
         IN IF r.ok THEN [v |-> r.v, err |-> NoErr]
            ELSE [v |-> old, err |-> <<Msg("parse int", value)>>]
    [] kind = "uint8" ->
         LET r == ParseUint(value)
         IN IF r.ok THEN [v |-> SetUint(kind, r.v), err |-> NoErr]
            ELSE [v |-> old, err |-> <<Msg("parse uint", value)>>]
    [] kind = "bool" ->
         LET r == ParseBool(value)
         IN IF r.ok THEN [v |-> r.v, err |-> NoErr]
            ELSE [v |-> old, err |-> <<Msg("parse bool", value)>>]
    [] OTHER -> [v |-> old, err |-> <<Msg("unsupported field type", typeName(kind))>>]

\* setFieldValue leaving a field of an unsupported kind alone, without error
setFieldValue_unsupportedSkipped(kind, old, value) ==
  CASE kind = "string" -> [v |-> value, err |-> NoErr]
    [] kind = "duration" ->
         LET r == ParseDuration(value)
         IN IF r.ok THEN [v |-> r.v, err |-> NoErr]
            ELSE [v |-> old, err |-> <<Msg("parse duration", value)>>]
    [] kind \in {"int", "int8"} ->
         LET r == ParseInt(value)
         IN IF r.ok THEN [v |-> SetInt(kind, r.v), err |-> NoErr]
            ELSE [v |-> old, err |-> <<Msg("parse int", value)>>]
    [] kind = "uint8" ->
         LET r == ParseUint(value)
         IN IF r.ok THEN [v |-> SetUint(kind, r.v), err |-> NoErr]
            ELSE [v |-> old, err |-> <<Msg("parse uint", value)>>]
    [] kind = "bool" ->
         LET r == ParseBool(value)
         IN IF r.ok THEN [v |-> r.v, err |-> NoErr]
            ELSE [v |-> old, err |-> <<Msg("parse bool", value)>>]
    [] OTHER -> [v |-> old, err |-> NoErr]

\* setFieldValue: the new value of a settable field of the given kind, or an
\* error (fields reached by the walk are exported fields of an addressable
\* struct, so CanSet holds).  kind "duration" is the type time.Duration, whose
\* reflect kind is Int64.
setFieldValue(kind, old, value) ==
  CASE kind = "string" -> [v |-> value, err |-> NoErr]
    [] kind = "duration" ->
         LET r == ParseDuration(value)
         IN IF r.ok THEN [v |-> r.v, err |-> NoErr]
            ELSE [v |-> old, err |-> <<Msg("parse duration", value)>>]
    [] kind \in {"int", "int8"} ->
         LET r == ParseInt(value)
         IN IF r.ok THEN [v |-> SetInt(kind, r.v), err |-> NoErr]
            ELSE [v |-> old, err |-> <<Msg("parse int", value)>>]
    [] kind = "uint8" ->
         LET r == ParseUint(value)
         IN IF r.ok THEN [v |-> SetUint(kind, r.v), err |-> NoErr]
            ELSE [v |-> old, err |-> <<Msg("parse uint", value)>>]
    [] kind = "bool" ->
         LET r == ParseBool(value)
         IN IF r.ok THEN [v |-> r.v, err |-> NoErr]
            ELSE [v |-> old, err |-> <<Msg("parse bool", value)>>]
    [] OTHER -> [v |-> old, err |-> <<Msg("unsupported field type", typeName(kind))>>]

\* applyEnvOverrides going on after a field failed, and returning the first
\* error at the end
RECURSIVE applyEnvOverrides_keepsGoing(_, _, _, _, _, _, _)
applyEnvOverrides_keepsGoing(e, val, typ, envPrefix, delimiter, normalizeDash, path) ==
  LET First(a, b) == IF a # NoErr THEN a ELSE b
      RECURSIVE loop(_, _, _, _, _)
      loop(v, looked, vis, er, i) ==
        IF i > Len(typ) THEN [val |-> v, err |-> er, looked |-> looked, visits |-> vis]
        ELSE
          LET f         == typ[i]
              comma     == IndexOf(f.tag, ",")
              yamlTag   == IF comma > 0 THEN SubSeq(f.tag, 1, comma - 1) ELSE f.tag
              name      == getStructPath(f, yamlTag)
              fieldPath == IF path # <<>> THEN path \o <<".">> \o name ELSE name
          IN IF ~IsExported(f) THEN loop(v, looked, vis, er, i + 1)
             ELSE IF f.tag = <<"-">> THEN loop(v, looked, vis, er, i + 1)
             ELSE IF f.kind = "struct" THEN
               LET r == applyEnvOverrides_keepsGoing(e, v[i], f.fields, envPrefix,
                                                     delimiter, normalizeDash, fieldPath)
               IN loop([v EXCEPT ![i] = r.val], looked \cup r.looked,
                       vis \o r.visits, First(er, r.err), i + 1)
             ELSE
               LET found == findEnvValue(e, envPrefix, delimiter, fieldPath, normalizeDash)
                   seen  == Append(vis, [path |-> fieldPath, key |-> found.key])
               IN IF ~found.exists THEN loop(v, looked \cup {found.key}, seen, er, i + 1)
                  ELSE LET s == setFieldValue(f.kind, v[i], found.value)
                       IN IF s.err # NoErr
                          THEN loop(v, looked \cup {found.key}, seen,
                                    First(er, Wrap("set field", fieldPath, s.err)), i + 1)
                          ELSE loop([v EXCEPT ![i] = s.v], looked \cup {found.key},
                                    seen, er, i + 1)
  IN loop(val, {}, <<>>, NoErr, 1)

\* applyEnvOverrides descending into the struct a pointer field points to
RECURSIVE applyEnvOverrides_followsPointers(_, _, _, _, _, _, _)
applyEnvOverrides_followsPointers(e, val, typ, envPrefix, delimiter, normalizeDash, path) ==
  LET RECURSIVE loop(_, _, _, _)
      loop(v, looked, vis, i) ==
        IF i > Len(typ) THEN [val |-> v, err |-> NoErr, looked |-> looked, visits |-> vis]
        ELSE
          LET f         == typ[i]
              comma     == IndexOf(f.tag, ",")
              yamlTag   == IF comma > 0 THEN SubSeq(f.tag, 1, comma - 1) ELSE f.tag
              name      == getStructPath(f, yamlTag)
              fieldPath == IF path # <<>> THEN path \o <<".">> \o name ELSE name
          IN IF ~IsExported(f) THEN loop(v, looked, vis, i + 1)
             ELSE IF f.tag = <<"-">> THEN loop(v, looked, vis, i + 1)
             ELSE IF f.kind = "ptr" /\ v[i] = <<>> THEN loop(v, looked, vis, i + 1)
             ELSE IF f.kind \in {"struct", "ptr"} THEN
               LET r == applyEnvOverrides_followsPointers(e, v[i], f.fields, envPrefix,
                                                          delimiter, normalizeDash, fieldPath)
               IN IF r.err # NoErr
                  THEN [val |-> [v EXCEPT ![i] = r.val], err |-> r.err,
                        looked |-> looked \cup r.looked, visits |-> vis \o r.visits]
                  ELSE loop([v EXCEPT ![i] = r.val], looked \cup r.looked,
                            vis \o r.visits, i + 1)
             ELSE
               LET found == findEnvValue(e, envPrefix, delimiter, fieldPath, normalizeDash)
                   seen  == Append(vis, [path |-> fieldPath, key |-> found.key])
               IN IF ~found.exists THEN loop(v, looked \cup {found.key}, seen, i + 1)
                  ELSE LET s == setFieldValue(f.kind, v[i], found.value)
                       IN IF s.err # NoErr
                          THEN [val |-> v, err |-> Wrap("set field", fieldPath, s.err),
                                looked |-> looked \cup {found.key}, visits |-> seen]
                          ELSE loop([v EXCEPT ![i] = s.v], looked \cup {found.key},
                                    seen, i + 1)
  IN loop(val, {}, <<>>, 1)

\* applyEnvOverrides on a struct value of type typ: the fields in
\* declaration order, stopping at the first error.  looked is the set of
\* environment keys looked up, visits the leaves consulted, in order.
RECURSIVE applyEnvOverrides(_, _, _, _, _, _, _)
applyEnvOverrides(e, val, typ, envPrefix, delimiter, normalizeDash, path) ==
  LET RECURSIVE loop(_, _, _, _)
      loop(v, looked, vis, i) ==
        IF i > Len(typ) THEN [val |-> v, err |-> NoErr, looked |-> looked, visits |-> vis]
        ELSE
          LET f         == typ[i]
              comma     == IndexOf(f.tag, ",")
              yamlTag   == IF comma > 0 THEN SubSeq(f.tag, 1, comma - 1) ELSE f.tag
              name      == getStructPath(f, yamlTag)
              fieldPath == IF path # <<>> THEN path \o <<".">> \o name ELSE name
          IN IF ~IsExported(f) THEN loop(v, looked, vis, i + 1)
             ELSE IF f.tag = <<"-">> THEN loop(v, looked, vis, i + 1)
             ELSE IF f.kind = "struct" THEN
               LET r == applyEnvOverrides(e, v[i], f.fields, envPrefix, delimiter,
                                          normalizeDash, fieldPath)
               IN IF r.err # NoErr
                  THEN [val |-> [v EXCEPT ![i] = r.val], err |-> r.err,
                        looked |-> looked \cup r.looked, visits |-> vis \o r.visits]
                  ELSE loop([v EXCEPT ![i] = r.val], looked \cup r.looked,
                            vis \o r.visits, i + 1)
             ELSE
               LET found == findEnvValue(e, envPrefix, delimiter, fieldPath, normalizeDash)
                   seen  == Append(vis, [path |-> fieldPath, key |-> found.key])
               IN IF ~found.exists THEN loop(v, looked \cup {found.key}, seen, i + 1)
                  ELSE LET s == setFieldValue(f.kind, v[i], found.value)
                       IN IF s.err # NoErr
                          THEN [val |-> v, err |-> Wrap("set field", fieldPath, s.err),
                                looked |-> looked \cup {found.key}, visits |-> seen]
                          ELSE loop([v EXCEPT ![i] = s.v], looked \cup {found.key},
                                    seen, i + 1)
  IN loop(val, {}, <<>>, 1)

----------------------------------------------------------------------------
(* LoaderOptions and the sources                                           *)

\* a ConfigSource is nil or a producer built by FileSource
SourceKinds == {"nil", "FileSource"}

\* FileSource: os.Open gives the file or fails because the path is missing
FileSource == {"ok", "not_exist"}

Prefixes == { <<>>, P_ }

Delimiters == { <<>>, DD }

\* no field name of ConfigType contains '-', so NormalizeDash = TRUE would
\* repeat every run of NormalizeDash = FALSE
NormalizeDashChoices == {FALSE}

\* LoadConfig never reads ForceLowerYAML; it is off in the runs that are not
\* about it
ForceLowerChoices == {FALSE}

LoaderOptions ==
  [BaseSource : SourceKinds, LocalSource : SourceKinds,
   EnvPrefix : Prefixes, Delimiter : Delimiters,
   Target : TargetKinds, NormalizeDash : NormalizeDashChoices,
   ForceLowerYAML : ForceLowerChoices]

\* the struct the caller's Target refers to or holds, before the call
TargetValues(kind) ==
  IF kind \in {"ptr_to_struct", "struct_value"} THEN {ZeroConfig, PresetConfig}
  ELSE {ZeroConfig}

NoStreams == [base |-> "none", local |-> "none"]

----------------------------------------------------------------------------
(* LoadConfig                                                              *)

\* the validation without the delimiter check
validateOptions_noDelimiterCheck(o) ==
  IF o.Target = "nil"
    THEN <<Msg("target cannot be nil", <<>>)>>
  ELSE IF reflectKind(o.Target) # "ptr"
    THEN <<Msg("target must be a pointer to struct", <<>>)>>
  ELSE IF reflectElemKind(o.Target) = "panic"
    THEN <<Msg("panic", <<>>)>>
  ELSE IF reflectElemKind(o.Target) # "struct"
    THEN <<Msg("target must be a pointer to struct", <<>>)>>
  ELSE IF o.BaseSource = "nil"
    THEN <<Msg("BaseSource cannot be nil", <<>>)>>
  ELSE NoErr

\* the validation without the BaseSource check
validateOptions_noBaseSourceCheck(o) ==
  IF o.EnvPrefix # <<>> /\ o.Delimiter = <<>>
    THEN <<Msg("delimiter cannot be empty when EnvPrefix is provided", <<>>)>>
  ELSE IF o.Target = "nil"
    THEN <<Msg("target cannot be nil", <<>>)>>
  ELSE IF reflectKind(o.Target) # "ptr"
    THEN <<Msg("target must be a pointer to struct", <<>>)>>
  ELSE IF reflectElemKind(o.Target) = "panic"
    THEN <<Msg("panic", <<>>)>>
  ELSE IF reflectElemKind(o.Target) # "struct"
    THEN <<Msg("target must be a pointer to struct", <<>>)>>
  ELSE NoErr

\* the validation without the check that the target is a pointer
validateOptions_noPointerCheck(o) ==
  IF o.EnvPrefix # <<>> /\ o.Delimiter = <<>>
    THEN <<Msg("delimiter cannot be empty when EnvPrefix is provided", <<>>)>>
  ELSE IF o.Target = "nil"
    THEN <<Msg("target cannot be nil", <<>>)>>
  ELSE IF reflectElemKind(o.Target) = "panic"
    THEN <<Msg("panic", <<>>)>>
  ELSE IF reflectElemKind(o.Target) # "struct"
    THEN <<Msg("target must be a pointer to struct", <<>>)>>
  ELSE IF o.BaseSource = "nil"
    THEN <<Msg("BaseSource cannot be nil", <<>>)>>
  ELSE NoErr

\* LoadConfig, the validation of the options
validateOptions(o) ==
  IF o.EnvPrefix # <<>> /\ o.Delimiter = <<>>
    THEN <<Msg("delimiter cannot be empty when EnvPrefix is provided", <<>>)>>
  ELSE IF o.Target = "nil"
    THEN <<Msg("target cannot be nil", <<>>)>>
  ELSE IF reflectKind(o.Target) # "ptr"
    THEN <<Msg("target must be a pointer to struct", <<>>)>>
  ELSE IF reflectElemKind(o.Target) = "panic"
    THEN <<Msg("panic", <<>>)>>
  ELSE IF reflectElemKind(o.Target) # "struct"
    THEN <<Msg("target must be a pointer to struct", <<>>)>>
  ELSE IF o.BaseSource = "nil"
    THEN <<Msg("BaseSource cannot be nil", <<>>)>>
  ELSE NoErr

\* the layers loaded in the wrong order
layerOrder_localFirst == <<"local", "base">>

\* LoadConfig loads the base layer first (step 1), then the local layer
\* (step 2)
layerOrder == <<"base", "local">>

\* the source of a layer
layerSource(o, l) == IF l = "base" THEN o.BaseSource ELSE o.LocalSource

\* the local layer loaded without the nil check
layerConfigured_always(o, l) == TRUE

\* whether LoadConfig loads the layer: the base layer always (its source was
\* validated), the local layer only when LocalSource is not nil
layerConfigured(o, l) == IF l = "base" THEN TRUE ELSE o.LocalSource # "nil"

\* the step LoadConfig goes to after the i-th layer: the next configured
\* layer, or the environment walk
RECURSIVE nextStep(_, _)
nextStep(o, i) ==
  IF i >= Len(layerOrder) THEN [pc |-> "env", layer |-> layerOrder[Len(layerOrder)]]
  ELSE IF layerConfigured(o, layerOrder[i + 1])
       THEN [pc |-> "open", layer |-> layerOrder[i + 1]]
       ELSE nextStep(o, i + 1)

\* both layers' errors wrapped as base errors
layerError_alwaysBase(l, inner) == Wrap("load base config", <<>>, inner)

\* LoadConfig wraps the error of a layer's loadYAMLFromSource
layerError(l, inner) ==
  IF l = "base" THEN Wrap("load base config", <<>>, inner)
  ELSE Wrap("load local config", <<>>, inner)

\* the local layer decoded onto a fresh struct
layerTarget_fresh(l, t) == IF l = "local" THEN ZeroConfig ELSE t

\* the layers of a later call decoded onto a struct of the loader's own
\* instead of the caller's
layerTarget_ownAfterFirst(l, t) == IF first.called THEN ZeroConfig ELSE t

\* the value loadYAMLFromSource decodes onto: opts.Target, as the layers
\* before left it
layerTarget(l, t) == t

\* the stream left open when loadYAMLFromSource returns
deferredClose_leftOpen(st, l, e) == st

\* the stream closed at the end of loadYAMLFromSource only, not deferred
deferredClose_onSuccessOnly(st, l, e) ==
  IF e = NoErr THEN [st EXCEPT ![l] = "closed"] ELSE st

\* loadYAMLFromSource: defer reader.Close() runs on every return
deferredClose(st, l, e) == [st EXCEPT ![l] = "closed"]

Event(ev, l) == [ev |-> ev, layer |-> l]

\* LoadConfig is called: the options are validated (lines 200-221)
LoadConfigEnter(o, t0) ==
  /\ pc = "idle"
  /\ opts' = o
  /\ target' = t0
  /\ target0' = t0
  /\ err' = validateOptions(o)
  /\ IF validateOptions(o) = NoErr
     THEN pc' = nextStep(o, 0).pc /\ layer' = nextStep(o, 0).layer
     ELSE pc' = "done" /\ layer' = layer
  /\ UNCHANGED <<visits, world, first, other, env, data, streams, trace, lookups, docs>>

\* loadYAMLFromSource: source() is invoked; calling a nil ConfigSource panics
SourceOpen(out) ==
  /\ pc = "open"
  /\ IF layerSource(opts, layer) = "nil"
     THEN /\ trace' = trace
          /\ streams' = streams
          /\ pc' = "done"
          /\ err' = <<Msg("panic", <<>>)>>
     ELSE IF out = "ok"
     THEN /\ trace' = Append(trace, Event("opened", layer))
          /\ streams' = [streams EXCEPT ![layer] = "open"]
          /\ pc' = "read"
          /\ err' = err
     ELSE /\ trace' = Append(trace, Event(out, layer))
          /\ streams' = streams
          /\ pc' = "done"
          /\ err' = layerError(layer, Wrap("open config source", <<>>, <<Msg(out, <<>>)>>))
  /\ UNCHANGED <<visits, world, first, other, env, opts, target, target0, layer, data, lookups, docs>>

\* loadYAMLFromSource: io.ReadAll fails
ReadAllFail ==
  /\ pc = "read"
  /\ err' = layerError(layer, Wrap("read config data", <<>>, <<Msg("io error", <<>>)>>))
  /\ streams' = deferredClose(streams, layer, err')
  /\ trace' = Append(trace, Event("read_failed", layer))
  /\ pc' = "done"
  /\ UNCHANGED <<visits, world, first, other, env, opts, target, target0, layer, data, lookups, docs>>

\* loadYAMLFromSource: io.ReadAll returns the bytes of the stream
ReadAllOk(d) ==
  /\ pc = "read"
  /\ data' = d
  /\ pc' = "decode"
  /\ UNCHANGED <<visits, world, first, other, env, opts, target, target0, layer, err, streams, trace, lookups, docs>>

\* loadYAMLFromSource: yaml.Unmarshal onto the target, and the return to
\* LoadConfig, which goes on to the next layer
Unmarshal ==
  /\ pc = "decode"
  /\ LET r == yamlUnmarshal(data, layerTarget(layer, target))
         i == IndexOf(layerOrder, layer)
     IN /\ target' = r.val
        /\ streams' = deferredClose(streams, layer, r.err)
        /\ docs' = [docs EXCEPT ![layer] = data]
        /\ IF r.err # NoErr
           THEN /\ err' = layerError(layer, r.err)
                /\ trace' = Append(trace, Event("decode_failed", layer))
                /\ pc' = "done"
                /\ layer' = layer
           ELSE /\ err' = err
                /\ trace' = Append(trace, Event("decoded", layer))
                /\ pc' = nextStep(opts, i).pc
                /\ layer' = nextStep(opts, i).layer
  /\ UNCHANGED <<visits, world, first, other, env, opts, target0, data, lookups>>

\* LoadConfig: the environment walk over the target
ApplyEnv ==
  /\ pc = "env"
  /\ LET r == applyEnvOverrides(env, target, ConfigType, opts.EnvPrefix,
                                opts.Delimiter, opts.NormalizeDash, <<>>)
     IN /\ target' = r.val
        /\ lookups' = r.looked
        /\ visits' = r.visits
        /\ err' = IF r.err # NoErr THEN Wrap("apply env overrides", <<>>, r.err)
                  ELSE NoErr
  /\ pc' = "done"
  /\ UNCHANGED <<world, first, other, env, opts, target0, layer, data, streams, trace, docs>>

InitOpts ==
  [BaseSource |-> "nil", LocalSource |-> "nil", EnvPrefix |-> <<>>,
   Delimiter |-> <<>>, Target |-> "nil", NormalizeDash |-> FALSE,
   ForceLowerYAML |-> FALSE]

NoDocs == [base |-> Malformed, local |-> Malformed]

\* what backs a source: a file (present or not, with its bytes) or a reader
\* (with its bytes, a Close method or none, read to its end or not)
Backing(exists, bytes, closer, used) ==
  [exists |-> exists, bytes |-> bytes, closer |-> closer, used |-> used]

NoWorld ==
  [o |-> InitOpts, t0 |-> ZeroConfig,
   base |-> Backing(FALSE, Malformed, FALSE, FALSE),
   local |-> Backing(FALSE, Malformed, FALSE, FALSE)]

NoFirst ==
  [called |-> FALSE, err |-> NoErr, target |-> ZeroConfig, docs |-> NoDocs,
   trace |-> <<>>]

\* the locals of a LoadConfig call
Locals(id, p, o, t, t0, l, d, e, st, tr, lk, dc, vs) ==
  [id |-> id, pc |-> p, opts |-> o, target |-> t, target0 |-> t0, layer |-> l,
   data |-> d, err |-> e, streams |-> st, trace |-> tr, lookups |-> lk,
   docs |-> dc, visits |-> vs]

NoOther ==
  Locals(0, "idle", InitOpts, ZeroConfig, ZeroConfig, "base", Malformed, NoErr,
         NoStreams, <<>>, {}, NoDocs, <<>>)

\* LoadConfig has returned; the caller may call again
Return ==
  /\ pc = "done"
  /\ pc' = "idle"
  /\ opts' = InitOpts
  /\ target' = ZeroConfig
  /\ target0' = ZeroConfig
  /\ layer' = "base"
  /\ data' = Malformed
  /\ err' = NoErr
  /\ streams' = NoStreams
  /\ trace' = <<>>
  /\ lookups' = {}
  /\ docs' = NoDocs
  /\ visits' = <<>>
  /\ UNCHANGED <<world, first, other, env>>

Init ==
  /\ env \in Envs
  /\ pc = "idle"
  /\ opts = InitOpts
  /\ target = ZeroConfig
  /\ target0 = ZeroConfig
  /\ layer = "base"
  /\ data = Malformed
  /\ err = NoErr
  /\ streams = NoStreams
  /\ trace = <<>>
  /\ lookups = {}
  /\ visits = <<>>
  /\ docs = NoDocs
  /\ world = NoWorld
  /\ first = NoFirst
  /\ other = NoOther

Next ==
  \/ \E o \in LoaderOptions : \E t0 \in TargetValues(o.Target) : LoadConfigEnter(o, t0)
  \/ \E out \in FileSource : SourceOpen(out)
  \/ ReadAllFail
  \/ \E d \in Datas : ReadAllOk(d)
  \/ Unmarshal
  \/ ApplyEnv
  \/ Return

Spec == Init /\ [][Next]_vars

----------------------------------------------------------------------------
(* The environment layer on a struct with leaves of more kinds, as LoadConfig *)
(* applies it once the documents are decoded:                                *)
(*   type Fields struct {                                                   *)
(*       Small   int8          `yaml:"small"`                                *)
(*       Count   uint8         `yaml:"retries,omitempty"`                    *)
(*       Enabled bool          `yaml:"enabled"`                              *)
(*       Timeout time.Duration `yaml:"timeout"`                              *)
(*       Server  struct {                                                   *)
(*           HostName string                                                *)
(*           Port     int `yaml:"port"`                                      *)
(*       } `yaml:"server"`                                                   *)
(*   }                                                                      *)

ServerType ==
  << FieldType(<<"H","o","s","t","N","a","m","e">>, <<>>, "string", <<>>),
     FieldType(<<"P","o","r","t">>, <<"p","o","r","t">>, "int", <<>>) >>

FieldsType ==
  << FieldType(<<"S","m","a","l","l">>, <<"s","m","a","l","l">>, "int8", <<>>),
     FieldType(<<"C","o","u","n","t">>,
               <<"r","e","t","r","i","e","s",",","o","m","i","t","e","m","p","t","y">>,
               "uint8", <<>>),
     FieldType(<<"E","n","a","b","l","e","d">>, <<"e","n","a","b","l","e","d">>,
               "bool", <<>>),
     FieldType(<<"T","i","m","e","o","u","t">>, <<"t","i","m","e","o","u","t">>,
               "duration", <<>>),
     FieldType(<<"S","e","r","v","e","r">>, <<"s","e","r","v","e","r">>,
               "struct", ServerType) >>

ZeroFields == ZeroStruct(FieldsType)

\* what the documents left in the struct
PresetFields == << 7, 9, TRUE, 250, << <<"h">>, 80 >> >>

FieldsTargets == {ZeroFields, PresetFields}

p_ == <<"p","_">>

U_ == <<"_">>

\* the options that pass LoadConfig's validation
FieldsOptions ==
  { o \in [BaseSource : {"FileSource"}, LocalSource : {"nil"},
           EnvPrefix : { <<>>, p_ }, Delimiter : { <<>>, DD, U_ },
           Target : {"ptr_to_struct"}, NormalizeDash : NormalizeDashChoices,
           ForceLowerYAML : ForceLowerChoices] :
      validateOptions(o) = NoErr }

\* values of environment variables: integers around the 8-bit limits, boolean
\* spellings, duration literals, and text that is none of them
FieldsValues ==
  { <<"1">>, <<"1","2","7">>, <<"1","2","8">>, <<"-","1","2","8">>,
    <<"-","1","2","9">>, <<"3","0","0">>, <<"2","5","5">>, <<"2","5","6">>,
    <<"-","1">>, <<"x">>, <<>>, <<"t","r","u","e">>, <<"T","R","U","E">>,
    <<"T","r","u","e">>, <<"t","R","u","E">>, <<"t">>, <<"T">>, <<"0">>,
    <<"f","a","l","s","e">>, <<"F","A","L","S","E">>, <<"f">>,
    <<"y","e","s">>, <<"1","s">>, <<"1","s","5","0","0","m","s">>,
    <<"9","0","m","s">>, <<"5">>, <<"a","b","c">>, <<"1","d">> }

\* the leaves of Fields, written out: index path, upper-case path segments
\* and kind
FieldsLeaves ==
  { [ix |-> <<1>>, segs |-> << <<"S","M","A","L","L">> >>, kind |-> "int8"],
    [ix |-> <<2>>, segs |-> << <<"R","E","T","R","I","E","S">> >>, kind |-> "uint8"],
    [ix |-> <<3>>, segs |-> << <<"E","N","A","B","L","E","D">> >>, kind |-> "bool"],
    [ix |-> <<4>>, segs |-> << <<"T","I","M","E","O","U","T">> >>, kind |-> "duration"],
    [ix |-> <<5, 1>>, kind |-> "string",
     segs |-> << <<"S","E","R","V","E","R">>, <<"H","O","S","T","N","A","M","E">> >>],
    [ix |-> <<5, 2>>, kind |-> "int",
     segs |-> << <<"S","E","R","V","E","R">>, <<"P","O","R","T">> >>] }

\* prefix, then the segments joined by sep
JoinedKey(prefix, segs, sep) ==
  prefix \o segs[1] \o (IF Len(segs) = 2 THEN sep \o segs[2] ELSE <<>>)

\* names a deployment may set for a leaf: the prefix as configured or in
\* upper case, the segments joined by the delimiter or by '.'
FieldsEnvNames ==
  { JoinedKey(pre, lf.segs, sep) :
      pre \in {o.EnvPrefix : o \in FieldsOptions} \cup {ToUpper(o.EnvPrefix) : o \in FieldsOptions},
      lf \in FieldsLeaves,
      sep \in {o.Delimiter : o \in FieldsOptions} \cup { <<".">> } }

\* environments of at most one variable
FieldsEnvs ==
  { <<>> } \cup { [x \in {n} |-> v] : n \in FieldsEnvNames, v \in FieldsValues }

\* LoadConfig at line 236, the layers decoded into the target: the walk
ApplyEnvFields ==
  /\ pc = "env"
  /\ LET r == applyEnvOverrides(env, target, FieldsType, opts.EnvPrefix,
                                opts.Delimiter, opts.NormalizeDash, <<>>)
     IN /\ target' = r.val
        /\ lookups' = r.looked
        /\ visits' = r.visits
        /\ err' = IF r.err # NoErr THEN Wrap("apply env overrides", <<>>, r.err)
                  ELSE NoErr
  /\ pc' = "done"
  /\ UNCHANGED <<world, first, other, env, opts, target0, layer, data, streams, trace, docs>>

InitFields ==
  /\ env \in FieldsEnvs
  /\ pc = "env"
  /\ opts \in FieldsOptions
  /\ target \in FieldsTargets
  /\ target0 = target
  /\ layer = "base"
  /\ data = Malformed
  /\ err = NoErr
  /\ streams = [base |-> "closed", local |-> "none"]
  /\ trace = << Event("opened", "base"), Event("decoded", "base") >>
  /\ lookups = {}
  /\ visits = <<>>
  /\ docs = NoDocs
  /\ world = NoWorld
  /\ first = NoFirst
  /\ other = NoOther

NextFields == ApplyEnvFields

SpecFields == InitFields /\ [][NextFields]_vars

----------------------------------------------------------------------------
(* LoadConfig called twice with the same LoaderOptions value, a fresh target *)
(* each time, the environment and the files unchanged.  A ConfigSource is a  *)
(* closure: FileSource and EmbedSource open the file anew at each            *)
(* invocation, ReaderSource hands out the one reader it was built with.      *)

RepeatSourceKinds == {"FileSource", "EmbedSource", "ReaderSource"}

RepeatDatas == {Bytes(DocFull), Bytes(DocPort), Bytes(DocEmpty), Malformed}

\* what a source of a kind can be backed by, before the first call
Backings(kind) ==
  CASE kind = "nil" -> {Backing(FALSE, Malformed, FALSE, FALSE)}
    [] kind \in {"FileSource", "EmbedSource"} ->
         {Backing(FALSE, Malformed, FALSE, FALSE)}
           \cup {Backing(TRUE, b, FALSE, FALSE) : b \in RepeatDatas}
    [] kind = "ReaderSource" ->
         {Backing(TRUE, b, c, FALSE) : b \in RepeatDatas, c \in BOOLEAN}

RepeatOptions ==
  [BaseSource : RepeatSourceKinds, LocalSource : {"nil", "FileSource", "ReaderSource"},
   EnvPrefix : {P_}, Delimiter : {DD},
   Target : {"ptr_to_struct"}, NormalizeDash : NormalizeDashChoices,
   ForceLowerYAML : ForceLowerChoices]

RepeatWorlds ==
  UNION { [o : {o}, t0 : TargetValues(o.Target),
           base : Backings(o.BaseSource), local : Backings(o.LocalSource)] :
            o \in RepeatOptions }

RepeatEnvs ==
  { <<>>, (E_P_APP__PORT :> <<"1">>), (E_P_DEBUG :> <<"x">>) }

\* source(): os.Open and fs.Open fail when the file is missing; the closure
\* of ReaderSource never fails
sourceOpens(kind, bk) ==
  IF kind = "ReaderSource" \/ bk.exists THEN "ok" ELSE "not_exist"

\* io.ReadAll(reader): a newly opened file gives its bytes; the reader of
\* ReaderSource gives its bytes the first time, and afterwards nothing when
\* it was wrapped by io.NopCloser, or an error when it was closed by the
\* deferred Close of the call before (as an *os.File is)
streamRead(kind, bk) ==
  IF kind # "ReaderSource" \/ ~bk.used THEN [ok |-> TRUE, bytes |-> bk.bytes]
  ELSE IF bk.closer THEN [ok |-> FALSE, bytes |-> Malformed]
  ELSE [ok |-> TRUE, bytes |-> Bytes(DocEmpty)]

\* the backing after a call: a reader that was handed out has been read to
\* its end (and closed, if it has a Close method)
afterCall(kind, bk, opened) ==
  IF kind = "ReaderSource" /\ opened THEN [bk EXCEPT !.used = TRUE] ELSE bk

RepeatEnter ==
  /\ pc = "idle"
  /\ LoadConfigEnter(world.o, world.t0)

RepeatOpen ==
  /\ pc = "open"
  /\ SourceOpen(sourceOpens(layerSource(opts, layer), world[layer]))

RepeatRead ==
  /\ pc = "read"
  /\ LET r == streamRead(layerSource(opts, layer), world[layer])
     IN IF r.ok THEN ReadAllOk(r.bytes) ELSE ReadAllFail

\* the first call has returned: its outcome is kept for comparison, and the
\* caller's variables are ready for the second call
RepeatReturn ==
  /\ pc = "done"
  /\ ~first.called
  /\ first' = [called |-> TRUE, err |-> err, target |-> target, docs |-> docs,
               trace |-> trace]
  /\ world' = [world EXCEPT
                 !.base = afterCall(opts.BaseSource, @,
                                    Event("opened", "base") \in {trace[i] : i \in 1..Len(trace)}),
                 !.local = afterCall(opts.LocalSource, @,
                                     Event("opened", "local") \in {trace[i] : i \in 1..Len(trace)})]
  /\ pc' = "idle"
  /\ opts' = InitOpts
  /\ target' = ZeroConfig
  /\ target0' = ZeroConfig
  /\ layer' = "base"
  /\ data' = Malformed
  /\ err' = NoErr
  /\ streams' = NoStreams
  /\ trace' = <<>>
  /\ lookups' = {}
  /\ docs' = NoDocs
  /\ visits' = <<>>
  /\ UNCHANGED <<env, other>>

InitRepeat ==
  /\ env \in RepeatEnvs
  /\ world \in RepeatWorlds
  /\ first = NoFirst
  /\ other = NoOther
  /\ pc = "idle"
  /\ opts = InitOpts
  /\ target = ZeroConfig
  /\ target0 = ZeroConfig
  /\ layer = "base"
  /\ data = Malformed
  /\ err = NoErr
  /\ streams = NoStreams
  /\ trace = <<>>
  /\ lookups = {}
  /\ visits = <<>>
  /\ docs = NoDocs

NextRepeat ==
  \/ RepeatEnter
  \/ RepeatOpen
  \/ RepeatRead
  \/ Unmarshal
  \/ ApplyEnv
  \/ RepeatReturn

SpecRepeat == InitRepeat /\ [][NextRepeat]_vars

----------------------------------------------------------------------------
(* Two LoadConfig calls on two goroutines, each with its own LoaderOptions   *)
(* value and its own target.  Everything a call works on is a parameter or  *)
(* a local variable of LoadConfig, loadYAMLFromSource and applyEnvOverrides; *)
(* the environment is only read.  The variables pc .. docs are the locals   *)
(* of the goroutine that runs, other holds those of the one that waits.     *)

ConcOptions ==
  [BaseSource : {"FileSource"}, LocalSource : SourceKinds,
   EnvPrefix : {P_}, Delimiter : {DD},
   Target : {"ptr_to_struct"}, NormalizeDash : NormalizeDashChoices,
   ForceLowerYAML : ForceLowerChoices]

ConcDatas == {Bytes(DocFull), Bytes(DocPort), Malformed}

\* the goroutines share the variable that says which layer is being loaded
contextSwitch_sharedLayer(cur, oth) == [oth EXCEPT !.layer = cur.layer]

\* the locals the scheduler resumes the other goroutine with: its own
contextSwitch(cur, oth) == oth

\* the scheduler lets the other goroutine run
Switch ==
  LET cur == Locals(3 - other.id, pc, opts, target, target0, layer, data, err,
                    streams, trace, lookups, docs, visits)
      nxt == contextSwitch(cur, other)
  IN /\ other' = cur
     /\ pc' = nxt.pc
     /\ opts' = nxt.opts
     /\ target' = nxt.target
     /\ target0' = nxt.target0
     /\ layer' = nxt.layer
     /\ data' = nxt.data
     /\ err' = nxt.err
     /\ streams' = nxt.streams
     /\ trace' = nxt.trace
     /\ lookups' = nxt.lookups
     /\ docs' = nxt.docs
     /\ visits' = nxt.visits
     /\ UNCHANGED <<env, world, first>>

InitConc ==
  /\ env \in RepeatEnvs
  /\ world = NoWorld
  /\ first = NoFirst
  /\ other = [NoOther EXCEPT !.id = 2]
  /\ pc = "idle"
  /\ opts = InitOpts
  /\ target = ZeroConfig
  /\ target0 = ZeroConfig
  /\ layer = "base"
  /\ data = Malformed
  /\ err = NoErr
  /\ streams = NoStreams
  /\ trace = <<>>
  /\ lookups = {}
  /\ visits = <<>>
  /\ docs = NoDocs

NextConc ==
  \/ \E o \in ConcOptions : \E t0 \in TargetValues(o.Target) : LoadConfigEnter(o, t0)
  \/ \E out \in FileSource : SourceOpen(out)
  \/ ReadAllFail
  \/ \E d \in ConcDatas : ReadAllOk(d)
  \/ Unmarshal
  \/ ApplyEnv
  \/ Switch

SpecConc == InitConc /\ [][NextConc]_vars

----------------------------------------------------------------------------
(* The walk over targets of other shapes (package main of a caller):        *)
(*   type Sub struct { Host string `yaml:"host"` }                          *)
(*   type Skips struct {                                                    *)
(*       Name     string `yaml:"name"`                                      *)
(*       Mode     string                                                    *)
(*       secret   string `yaml:"secret"`                                    *)
(*       Hidden   string `yaml:"-"`                                         *)
(*       Internal struct { Key string `yaml:"key"` } `yaml:"-"`             *)
(*       cache    struct { Ttl string `yaml:"ttl"` }                        *)
(*       Host     string                                                    *)
(*       Db       struct { Host string `yaml:"host"` } `yaml:"db"`          *)
(*   }                                                                      *)
(*   type Dashed struct {                                                   *)
(*       AppName string `yaml:"app-name"`                                   *)
(*       MyDb    struct { HostName string `yaml:"host-name"` } `yaml:"my-db"` *)
(*   }                                                                      *)
(*   type WithPtr struct {                                                  *)
(*       Name string `yaml:"name"`                                          *)
(*       Sub  *Sub   `yaml:"sub"`                                           *)
(*       Last string `yaml:"last"`                                          *)
(*   }                                                                      *)
(*   type Clash struct {                                                    *)
(*       Db     struct { Host string `yaml:"host"` } `yaml:"db"`            *)
(*       DbHost string `yaml:"db_host"`                                     *)
(*   }                                                                      *)
(*   type Dotted struct {                                                   *)
(*       Db     struct { Host string `yaml:"host"` } `yaml:"db"`            *)
(*       DbHost string `yaml:"db.host"`                                     *)
(*   }                                                                      *)
(* A field of kind "ptr" is a pointer to a struct; fields is the type it    *)
(* points to, its value is <<>> (nil) or the struct value pointed to.       *)

SubType ==
  << FieldType(<<"H","o","s","t">>, <<"h","o","s","t">>, "string", <<>>) >>

SkipsType ==
  << FieldType(<<"N","a","m","e">>, <<"n","a","m","e">>, "string", <<>>),
     FieldType(<<"M","o","d","e">>, <<>>, "string", <<>>),
     FieldType(<<"s","e","c","r","e","t">>, <<"s","e","c","r","e","t">>, "string", <<>>),
     FieldType(<<"H","i","d","d","e","n">>, <<"-">>, "string", <<>>),
     FieldType(<<"I","n","t","e","r","n","a","l">>, <<"-">>, "struct",
               << FieldType(<<"K","e","y">>, <<"k","e","y">>, "string", <<>>) >>),
     FieldType(<<"c","a","c","h","e">>, <<>>, "struct",
               << FieldType(<<"T","t","l">>, <<"t","t","l">>, "string", <<>>) >>),
     FieldType(<<"H","o","s","t">>, <<>>, "string", <<>>),
     FieldType(<<"D","b">>, <<"d","b">>, "struct", SubType) >>

DashedType ==
  << FieldType(<<"A","p","p","N","a","m","e">>, <<"a","p","p","-","n","a","m","e">>,
               "string", <<>>),
     FieldType(<<"M","y","D","b">>, <<"m","y","-","d","b">>, "struct",
               << FieldType(<<"H","o","s","t","N","a","m","e">>,
                            <<"h","o","s","t","-","n","a","m","e">>, "string", <<>>) >>) >>

WithPtrType ==
  << FieldType(<<"N","a","m","e">>, <<"n","a","m","e">>, "string", <<>>),
     FieldType(<<"S","u","b">>, <<"s","u","b">>, "ptr", SubType),
     FieldType(<<"L","a","s","t">>, <<"l","a","s","t">>, "string", <<>>) >>

ClashType ==
  << FieldType(<<"D","b">>, <<"d","b">>, "struct", SubType),
     FieldType(<<"D","b","H","o","s","t">>, <<"d","b","_","h","o","s","t">>,
               "string", <<>>) >>

DottedType ==
  << FieldType(<<"D","b">>, <<"d","b">>, "struct", SubType),
     FieldType(<<"D","b","H","o","s","t">>, <<"d","b",".","h","o","s","t">>,
               "string", <<>>) >>

WalkTypes == {SkipsType, DashedType, WithPtrType, ClashType, DottedType}

\* a struct value the documents filled: every text field holds its tag and
\* name, every pointer points to a struct
RECURSIVE FilledStruct(_)
FilledStruct(typ) ==
  [i \in 1..Len(typ) |->
     IF typ[i].kind \in {"struct", "ptr"} THEN FilledStruct(typ[i].fields)
     ELSE typ[i].tag \o typ[i].name]

\* WithPtr as the documents leave it when they have no key "sub": Sub is nil
NilSubTarget == [FilledStruct(WithPtrType) EXCEPT ![2] = <<>>]

\* the targets with their types (a reflect.Value carries its type)
WalkTargets ==
  { [typ |-> t, val |-> FilledStruct(t)] : t \in WalkTypes }
    \cup { [typ |-> WithPtrType, val |-> NilSubTarget] }

\* reflect.Value.Type of a target
TypeOf(val) == (CHOOSE r \in WalkTargets : r.val = val).typ

p_dash == <<"p","-">>

Dash == <<"-">>

\* the options that pass LoadConfig's validation; prefix and delimiter with
\* and without '-'
WalkOptions ==
  { o \in [BaseSource : {"FileSource"}, LocalSource : {"nil"},
           EnvPrefix : { <<>>, p_dash }, Delimiter : { <<>>, DD, U_, Dash },
           Target : {"ptr_to_struct"}, NormalizeDash : BOOLEAN,
           ForceLowerYAML : ForceLowerChoices] :
      validateOptions(o) = NoErr }

\* the dotted names of all fields of a struct type, at any depth, skipped
\* or not, below pointers too
RECURSIVE FieldPaths(_, _)
FieldPaths(typ, path) ==
  UNION { LET f    == typ[i]
              name == IF yamlKey(f) = <<"-">> THEN ToLower(f.name) ELSE yamlKey(f)
              here == IF path = <<>> THEN name ELSE path \o <<".">> \o name
          IN {here} \cup FieldPaths(f.fields, here) : i \in 1..Len(typ) }

\* names a deployment may set for a field: the path in upper case behind a
\* prefix, the segments joined by a delimiter or by '.', '-' kept or written
\* as '_'
WalkEnvNames(typ) ==
  { pre \o (IF dashed THEN ReplaceAll(ReplaceAll(ToUpper(path), ".", sep), "-", U_)
            ELSE ReplaceAll(ToUpper(path), ".", sep)) :
      pre \in {o.EnvPrefix : o \in WalkOptions},
      path \in FieldPaths(typ, <<>>),
      sep \in {DD, U_, Dash, <<".">>},
      dashed \in BOOLEAN }

WalkValue == <<"v">>

\* environments of at most one variable
WalkEnvs(typ) ==
  { <<>> } \cup { [x \in {n} |-> WalkValue] : n \in WalkEnvNames(typ) }

\* LoadConfig at line 236, the layers decoded into the target: the walk
ApplyEnvWalk ==
  /\ pc = "env"
  /\ LET r == applyEnvOverrides(env, target, TypeOf(target0), opts.EnvPrefix,
                                opts.Delimiter, opts.NormalizeDash, <<>>)
     IN /\ target' = r.val
        /\ lookups' = r.looked
        /\ visits' = r.visits
        /\ err' = IF r.err # NoErr THEN Wrap("apply env overrides", <<>>, r.err)
                  ELSE NoErr
  /\ pc' = "done"
  /\ UNCHANGED <<world, first, other, env, opts, target0, layer, data, streams, trace, docs>>

InitWalk ==
  /\ target \in {r.val : r \in WalkTargets}
  /\ target0 = target
  /\ env \in WalkEnvs(TypeOf(target))
  /\ pc = "env"
  /\ opts \in WalkOptions
  /\ layer = "base"
  /\ data = Malformed
  /\ err = NoErr
  /\ streams = [base |-> "closed", local |-> "none"]
  /\ trace = << Event("opened", "base"), Event("decoded", "base") >>
  /\ lookups = {}
  /\ visits = <<>>
  /\ docs = NoDocs
  /\ world = NoWorld
  /\ first = NoFirst
  /\ other = NoOther

NextWalk == ApplyEnvWalk

SpecWalk == InitWalk /\ [][NextWalk]_vars

----------------------------------------------------------------------------
(* LoadConfig with ForceLowerYAML on or off, on documents whose keys are    *)
(* written in lower case and otherwise                                       *)

K_DEBUG == <<"D","E","B","U","G">>

K_app_Port == <<"a","p","p",".","P","o","r","t">>

\* a document with the keys DEBUG and, below app, Port
DocUpper ==
  (K_DEBUG :> Scalar("bool", TRUE)) @@ (K_app_Port :> Scalar("int", 3000))

LowerDatas == {Bytes(DocUpper), Bytes(DocFull), Bytes(DocNameDebug), Malformed}

LowerOptions ==
  [BaseSource : {"FileSource"}, LocalSource : SourceKinds,
   EnvPrefix : {P_}, Delimiter : {DD},
   Target : {"ptr_to_struct"}, NormalizeDash : NormalizeDashChoices,
   ForceLowerYAML : BOOLEAN]

LowerEnvs == { <<>>, [x \in {E_P_DEBUG} |-> <<"1">>] }

InitLower ==
  /\ env \in LowerEnvs
  /\ pc = "idle"
  /\ opts = InitOpts
  /\ target = ZeroConfig
  /\ target0 = ZeroConfig
  /\ layer = "base"
  /\ data = Malformed
  /\ err = NoErr
  /\ streams = NoStreams
  /\ trace = <<>>
  /\ lookups = {}
  /\ visits = <<>>
  /\ docs = NoDocs
  /\ world = NoWorld
  /\ first = NoFirst
  /\ other = NoOther

NextLower ==
  \/ \E o \in LowerOptions : \E t0 \in TargetValues(o.Target) : LoadConfigEnter(o, t0)
  \/ \E out \in FileSource : SourceOpen(out)
  \/ ReadAllFail
  \/ \E d \in LowerDatas : ReadAllOk(d)
  \/ Unmarshal
  \/ ApplyEnv
  \/ Return

SpecLower == InitLower /\ [][NextLower]_vars

----------------------------------------------------------------------------
(* The properties.  The leaf fields of Config are listed here by hand, with *)
(* their dotted path and upper-case path segments, independently of the     *)
(* walker's derivation.                                                     *)

Leaf(ix, path, segs, kind) == [ix |-> ix, path |-> path, segs |-> segs, kind |-> kind]

Leaves ==
  { Leaf(<<1, 1>>, K_app_name, << <<"A","P","P">>, <<"N","A","M","E">> >>, "string"),
    Leaf(<<1, 2>>, K_app_port, << <<"A","P","P">>, <<"P","O","R","T">> >>, "int"),
    Leaf(<<2>>, K_debug, << <<"D","E","B","U","G">> >>, "bool"),
    Leaf(<<3>>, K_tags, << <<"T","A","G","S">> >>, "slice") }

LeafValue(val, ix) == IF Len(ix) = 1 THEN val[ix[1]] ELSE val[ix[1]][ix[2]]

\* the environment key of a leaf: prefix, then the upper-case segments joined
\* by the delimiter (by '.' when the delimiter is empty)
ExpectedKey(o, lf) ==
  LET sep == IF o.Delimiter = <<>> THEN <<".">> ELSE o.Delimiter
  IN o.EnvPrefix \o lf.segs[1] \o (IF Len(lf.segs) = 2 THEN sep \o lf.segs[2] ELSE <<>>)

\* a value is correctly formatted for a kind, and what it then denotes
WellFormed(kind, value) ==
  \/ kind = "string"
  \/ kind = "int" /\ ParseInt(value).ok
  \/ kind = "bool" /\ ParseBool(value).ok

Denoted(kind, value) ==
  CASE kind = "int"  -> ParseInt(value).v
    [] kind = "bool" -> ParseBool(value).v
    [] OTHER         -> value

Defines(d, lf) == d.syntax /\ lf.path \in DOMAIN d.doc

Succeeded == pc = "done" /\ err = NoErr

Events == {trace[i] : i \in 1..Len(trace)}

\* the number of times the source producer of a layer was invoked
Invocations(l) ==
  Cardinality({i \in 1..Len(trace) : trace[i].layer = l /\ trace[i].ev \in {"opened", "not_exist"}})

ConfigurationErrors ==
  { "delimiter cannot be empty when EnvPrefix is provided",
    "target cannot be nil",
    "target must be a pointer to struct",
    "BaseSource cannot be nil" }

IsConfigurationError(e) == e # NoErr /\ e[1].msg \in ConfigurationErrors

\* no producer invoked, no stream, no lookup, target as before the call
NothingApplied ==
  trace = <<>> /\ streams = NoStreams /\ lookups = {} /\ target = target0

BadDelimiter(o) == o.EnvPrefix # <<>> /\ o.Delimiter = <<>>

ValidCall(o) ==
  ~BadDelimiter(o) /\ o.Target = "ptr_to_struct" /\ o.BaseSource # "nil"

\* C1: after a successful LoadConfig, every leaf whose environment key
\* exists with a correctly formatted value holds the parsed environment
\* value, whatever the documents define for it.
C1_EnvironmentWins ==
  Succeeded =>
    \A lf \in Leaves :
      (ExpectedKey(opts, lf) \in DOMAIN env
         /\ WellFormed(lf.kind, env[ExpectedKey(opts, lf)]))
      => LeafValue(target, lf.ix) = Denoted(lf.kind, env[ExpectedKey(opts, lf)])

\* a successful load where both documents define the port and the port's
\* variable gives another value
C1_Witness ==
  /\ Succeeded
  /\ \E lf \in Leaves :
       /\ lf.kind = "int"
       /\ Defines(docs.base, lf) /\ Defines(docs.local, lf)
       /\ ExpectedKey(opts, lf) \in DOMAIN env
       /\ WellFormed(lf.kind, env[ExpectedKey(opts, lf)])
       /\ Denoted(lf.kind, env[ExpectedKey(opts, lf)]) # docs.local.doc[lf.path].v
       /\ Denoted(lf.kind, env[ExpectedKey(opts, lf)]) # docs.base.doc[lf.path].v
       /\ opts.EnvPrefix # <<>>

\* C2: after a successful LoadConfig, a field that both documents define and
\* that has no environment variable holds the local document's value.
C2_LocalWinsOverBase ==
  Succeeded =>
    \A lf \in Leaves :
      (Defines(docs.base, lf) /\ Defines(docs.local, lf)
         /\ Event("decoded", "local") \in Events
         /\ ExpectedKey(opts, lf) \notin DOMAIN env)
      => LeafValue(target, lf.ix) = docs.local.doc[lf.path].v

C2_Witness ==
  /\ Succeeded
  /\ \E lf \in Leaves :
       /\ Defines(docs.base, lf) /\ Defines(docs.local, lf)
       /\ Event("decoded", "local") \in Events
       /\ docs.base.doc[lf.path].v # docs.local.doc[lf.path].v
       /\ ExpectedKey(opts, lf) \notin DOMAIN env

\* C3: after a successful LoadConfig, a field the base document defines, the
\* local document omits and no environment variable matches holds the base
\* value, leaf by leaf (siblings of a field the local document sets keep
\* their base values).
C3_OmittedKeepsBase ==
  Succeeded =>
    \A lf \in Leaves :
      (Defines(docs.base, lf)
         /\ ~(Event("decoded", "local") \in Events /\ Defines(docs.local, lf))
         /\ ExpectedKey(opts, lf) \notin DOMAIN env)
      => LeafValue(target, lf.ix) = docs.base.doc[lf.path].v

\* the local document sets app.port only; app.name keeps its base value
C3_Witness ==
  /\ Succeeded
  /\ Event("decoded", "local") \in Events
  /\ docs.base = Bytes(DocFull)
  /\ docs.local = Bytes(DocPort)
  /\ target0 = PresetConfig
  /\ \A lf \in Leaves : ExpectedKey(opts, lf) \notin DOMAIN env

\* C4: a non-empty EnvPrefix with an empty Delimiter makes LoadConfig fail
\* with the delimiter configuration error and apply nothing; with an empty
\* EnvPrefix an empty Delimiter is not rejected, and an otherwise valid call
\* goes on to load the base layer.
C4_EmptyDelimiterRejected ==
  pc # "idle" =>
    /\ BadDelimiter(opts) =>
         /\ pc = "done"
         /\ err # NoErr
         /\ err[1].msg = "delimiter cannot be empty when EnvPrefix is provided"
         /\ NothingApplied
    /\ (opts.EnvPrefix = <<>> /\ opts.Delimiter = <<>>) =>
         /\ err = NoErr \/ err[1].msg # "delimiter cannot be empty when EnvPrefix is provided"
         /\ ValidCall(opts) => ~(pc = "done" /\ trace = <<>>)

\* rejected although target and sources are fine and the target holds values
C4_Witness ==
  /\ pc = "done"
  /\ BadDelimiter(opts)
  /\ opts.Target = "ptr_to_struct"
  /\ opts.BaseSource # "nil"
  /\ opts.LocalSource # "nil"
  /\ target0 = PresetConfig
  /\ env # << >>

\* C5: with a nil BaseSource LoadConfig fails with a configuration error
\* before any I/O: no producer invoked, no stream opened, no environment
\* lookup, target unchanged.
C5_NilBaseSourceRejected ==
  (pc # "idle" /\ opts.BaseSource = "nil") =>
    /\ pc = "done"
    /\ IsConfigurationError(err)
    /\ NothingApplied

\* the nil base source is the only thing wrong with the call
C5_Witness ==
  /\ pc = "done"
  /\ opts.BaseSource = "nil"
  /\ opts.LocalSource # "nil"
  /\ opts.Target = "ptr_to_struct"
  /\ ~BadDelimiter(opts)
  /\ err # NoErr
  /\ err[1].msg = "BaseSource cannot be nil"

\* C6: a Target that is nil, a typed nil pointer, not a pointer, or a pointer
\* to a non-struct gives a configuration error at once, without a panic: no
\* producer invoked, no stream, no environment lookup.
C6_BadTargetRejected ==
  (pc # "idle" /\ opts.Target # "ptr_to_struct") =>
    /\ pc = "done"
    /\ IsConfigurationError(err)
    /\ trace = <<>>
    /\ streams = NoStreams
    /\ lookups = {}

\* a typed nil pointer in an otherwise valid call
C6_Witness ==
  /\ pc = "done"
  /\ opts.Target = "nil_ptr"
  /\ opts.BaseSource # "nil"
  /\ ~BadDelimiter(opts)
  /\ err # NoErr
  /\ err[1].msg = "target must be a pointer to struct"

\* the outcome of loading the base document recorded in docs onto the target
\* of before the call, followed by the environment walk
BaseThenEnv ==
  LET b == yamlUnmarshal(docs.base, target0)
      w == applyEnvOverrides(env, b.val, ConfigType, opts.EnvPrefix, opts.Delimiter,
                             opts.NormalizeDash, <<>>)
  IN [target |-> w.val,
      err |-> IF w.err # NoErr THEN Wrap("apply env overrides", <<>>, w.err) ELSE NoErr]

\* C7: a local source whose file does not exist is not an error: LoadConfig
\* succeeds with the base values plus the environment overrides.
C7_MissingLocalFileIsSkipped ==
  (pc = "done" /\ Event("not_exist", "local") \in Events) =>
    /\ err = BaseThenEnv.err
    /\ target = BaseThenEnv.target

\* C8: with a nil LocalSource the local layer is skipped without error: the
\* local producer is never invoked, and outcome and target are those of the
\* base document followed by the environment overrides.
C8_NilLocalSourceSkipped ==
  (pc = "done" /\ ValidCall(opts) /\ opts.LocalSource = "nil") =>
    /\ Invocations("local") = 0
    /\ streams.local = "none"
    /\ IF Event("decoded", "base") \in Events
       THEN err = BaseThenEnv.err /\ target = BaseThenEnv.target
       ELSE err # NoErr /\ err[1].msg = "load base config"

\* base document loaded, no local source, an environment override applied
C8_Witness ==
  /\ Succeeded
  /\ opts.LocalSource = "nil"
  /\ docs.base = Bytes(DocFull)
  /\ target # yamlUnmarshal(docs.base, target0).val
  /\ lookups # {}

\* C9: when loading a layer fails (open, read or decode), the error names
\* that layer: base loading for the base source, local loading for the
\* local source.
C9_LayerErrorNamesLayer ==
  pc = "done" =>
    \A l \in {"base", "local"} :
      (\E ev \in {"not_exist", "read_failed", "decode_failed"} : Event(ev, l) \in Events)
      => /\ err # NoErr
         /\ err[1].msg = (IF l = "base" THEN "load base config" ELSE "load local config")

\* the local layer failed after the base layer was decoded
C9_Witness ==
  /\ pc = "done"
  /\ Event("decoded", "base") \in Events
  /\ Event("decode_failed", "local") \in Events
  /\ err # NoErr
  /\ err[1].msg = "load local config"

\* C10: every stream a source producer returned is closed by the time
\* LoadConfig returns, on every exit path.
C10_StreamsClosedOnReturn ==
  pc \in {"done", "idle"} =>
    \A l \in {"base", "local"} :
      /\ streams[l] # "open"
      /\ Event("opened", l) \in Events => streams[l] = "closed"

\* both streams were opened and the call failed
C10_Witness ==
  /\ pc = "done"
  /\ err # NoErr
  /\ Event("opened", "base") \in Events
  /\ Event("opened", "local") \in Events
  /\ streams = [base |-> "closed", local |-> "closed"]

----------------------------------------------------------------------------
(* The environment key of a leaf                                            *)

\* the key as the walk derives it: the prefix as configured, then the
\* upper-case segments joined by the delimiter, by '.' when it is empty
KeyAsGiven(o, lf) ==
  JoinedKey(o.EnvPrefix, lf.segs, IF o.Delimiter = <<>> THEN <<".">> ELSE o.Delimiter)

\* the key with the prefix in upper case too and every '.' replaced by the
\* delimiter, whatever the delimiter is
KeyUpperPrefix(o, lf) == JoinedKey(ToUpper(o.EnvPrefix), lf.segs, o.Delimiter)

WalkDone == pc = "done" /\ Len(target) = Len(FieldsType)

\* C11 as stated: the key looked up for a leaf is UPPER(EnvPrefix) followed by
\* UPPER(path) with every '.' replaced by Delimiter.
C11_KeyUpperPrefixAndPath ==
  WalkDone =>
    /\ lookups \subseteq {KeyUpperPrefix(opts, lf) : lf \in FieldsLeaves}
    /\ err = NoErr => lookups = {KeyUpperPrefix(opts, lf) : lf \in FieldsLeaves}

\* C11, amended: with NormalizeDash off, the key looked up for a leaf is
\* EnvPrefix as configured followed by UPPER(path), where the path is the
\* field names (tag name without options, else the lower-cased field name)
\* joined by '.', and '.' is replaced by Delimiter when Delimiter is not
\* empty and kept otherwise; a variable under that key overrides the leaf.
C11_KeyPrefixAsGiven ==
  WalkDone /\ ~opts.NormalizeDash =>
    /\ lookups \subseteq {KeyAsGiven(opts, lf) : lf \in FieldsLeaves}
    /\ err = NoErr =>
         /\ lookups = {KeyAsGiven(opts, lf) : lf \in FieldsLeaves}
         /\ \A lf \in FieldsLeaves :
              (lf.kind = "string" /\ KeyAsGiven(opts, lf) \in DOMAIN env)
              => LeafValue(target, lf.ix) = env[KeyAsGiven(opts, lf)]

\* a walk with a lower-case prefix that looked up every leaf and set the
\* untagged field from its variable
C11_Witness ==
  /\ WalkDone /\ err = NoErr
  /\ opts.EnvPrefix = p_ /\ opts.Delimiter = DD
  /\ Cardinality(lookups) = Cardinality(FieldsLeaves)
  /\ \E lf \in FieldsLeaves :
       /\ lf.ix = <<5, 1>>
       /\ KeyAsGiven(opts, lf) \in DOMAIN env
       /\ LeafValue(target, lf.ix) = env[KeyAsGiven(opts, lf)]
       /\ LeafValue(target, lf.ix) # LeafValue(target0, lf.ix)

----------------------------------------------------------------------------
(* The frame of the environment layer                                       *)

\* the walk ran: LoadConfig returned after looking up at least one key
WalkRan == pc = "done" /\ lookups # {}

\* what the decoded documents leave in a leaf: the local document's value,
\* else the base document's, else what the caller put there
DocumentsValue(lf) ==
  IF Event("decoded", "local") \in Events /\ Defines(docs.local, lf)
    THEN docs.local.doc[lf.path].v
  ELSE IF Defines(docs.base, lf) THEN docs.base.doc[lf.path].v
  ELSE LeafValue(target0, lf.ix)

\* C12: a leaf whose environment key does not exist keeps, through the
\* environment layer, the value the document layers gave it, and the error of
\* the walk, if any, is not about it; the walk leaves the shape of the
\* struct as it is.  Variables whose names match no key (another prefix,
\* another delimiter) change nothing.
C12_AbsentKeyLeavesField ==
  WalkRan =>
    /\ Len(target) = Len(ConfigType) /\ Len(target[1]) = Len(AppType)
    /\ \A lf \in Leaves :
         ExpectedKey(opts, lf) \notin DOMAIN env =>
           /\ LeafValue(target, lf.ix) = DocumentsValue(lf)
           /\ err # NoErr => err[2] # Msg("set field", lf.path)

\* the walk ran with a prefix while the only variables are ones without the
\* prefix or with another delimiter, over a document that sets every leaf
C12_Witness ==
  /\ WalkRan /\ err = NoErr
  /\ opts.EnvPrefix = P_ /\ opts.Delimiter = DD
  /\ DOMAIN env = {E_APP__PORT, E_APP_DOT_PORT}
  /\ docs.base = Bytes(DocFull)
  /\ \A lf \in Leaves : LeafValue(target, lf.ix) = DocumentsValue(lf)
  /\ target # target0

----------------------------------------------------------------------------
(* The order of the phases                                                  *)

\* the positions of the trace at which a layer's producer was invoked
InvokedAt(l) ==
  {i \in 1..Len(trace) : trace[i].layer = l /\ trace[i].ev \in {"opened", "not_exist"}}

\* the layer was loaded: its document decoded and its stream closed
Loaded(l) == Event("decoded", l) \in Events /\ streams[l] = "closed"

\* C16: within a call, each producer is invoked at most once; whenever the
\* local producer is about to be or has been invoked, the base document was
\* decoded before and the base stream is closed; a producer is invoked only
\* after validation passed; and whenever the walk is about to run or has
\* looked up a variable, validation passed and every configured layer was
\* loaded.
C16_PhasesInOrder ==
  /\ \A l \in {"base", "local"} : Cardinality(InvokedAt(l)) <= 1
  /\ trace # <<>> => ValidCall(opts) /\ trace[1].layer = "base"
  /\ (pc = "open" /\ layer = "local") => Loaded("base")
  /\ \A i \in InvokedAt("local") :
       /\ \E j \in 1..(i - 1) : trace[j] = Event("decoded", "base")
       /\ streams.base = "closed"
  /\ (pc = "env" \/ lookups # {}) =>
       /\ ValidCall(opts)
       /\ Loaded("base")
       /\ opts.LocalSource # "nil" => Loaded("local")
       /\ InvokedAt("base") # {}

\* a call with both layers configured that went through all four phases
C16_Witness ==
  /\ pc = "done" /\ lookups # {}
  /\ opts.LocalSource # "nil"
  /\ trace = << Event("opened", "base"), Event("decoded", "base"),
                Event("opened", "local"), Event("decoded", "local") >>

----------------------------------------------------------------------------
(* Fields of a kind the walk cannot set                                     *)

\* no leaf other than lf has a variable the walk cannot parse
OthersWellFormed(lf) ==
  \A lf2 \in Leaves \ {lf} :
    ExpectedKey(opts, lf2) \in DOMAIN env
    => WellFormed(lf2.kind, env[ExpectedKey(opts, lf2)])

\* C18: when the key of a leaf of an unsupported kind (the slice Tags)
\* exists, the walk fails; the error, unless an earlier field failed first,
\* is the unsupported-type error under "set field <dotted path>" and carries
\* the field's type, and the field is left as it was.
C18_UnsupportedTypeNamed ==
  WalkRan =>
    \A lf \in Leaves :
      (lf.kind = "slice" /\ ExpectedKey(opts, lf) \in DOMAIN env) =>
        /\ err # NoErr
        /\ OthersWellFormed(lf) =>
             /\ err = << Msg("apply env overrides", <<>>),
                         Msg("set field", <<"t","a","g","s">>),
                         Msg("unsupported field type",
                             <<"[","]","s","t","r","i","n","g">>) >>
             /\ LeafValue(target, lf.ix) = DocumentsValue(lf)

\* the variable of Tags exists and the walk failed on it
C18_Witness ==
  /\ WalkRan
  /\ E_P_TAGS \in DOMAIN env /\ opts.EnvPrefix = P_
  /\ Len(err) = 3 /\ err[2] = Msg("set field", K_tags)
  /\ err[3].msg = "unsupported field type"

----------------------------------------------------------------------------
(* Scalar conversions of the environment layer                              *)

\* the one variable of the environment is the one of the leaf
KeyOf(lf) == KeyAsGiven(opts, lf)

HasKey(lf) == KeyOf(lf) \in DOMAIN env

\* the error of a walk that failed on the leaf with the given dotted path
FailedOn(path, msg) ==
  /\ Len(err) = 3
  /\ err[1] = Msg("apply env overrides", <<>>)
  /\ err[2] = Msg("set field", path)
  /\ err[3].msg = msg

\* the range of an integer kind
MinOf(kind) == IF kind = "int8" THEN -128 ELSE 0

MaxOf(kind) == IF kind = "int8" THEN 127 ELSE 255

\* the literal is a decimal integer within the range of the kind
FitsKind(kind, value) ==
  /\ ParseInt(value).ok
  /\ ParseInt(value).v >= MinOf(kind)
  /\ ParseInt(value).v <= MaxOf(kind)

\* C17 as stated: a value for an 8-bit integer field that is malformed or out
\* of the field's range makes the walk fail and leaves the field as it was;
\* no truncated or wrapped value is stored.
C17_IntegerOutOfRangeFails ==
  WalkDone =>
    \A lf \in FieldsLeaves :
      (lf.kind \in {"int8", "uint8"} /\ HasKey(lf)
         /\ ~FitsKind(lf.kind, env[KeyOf(lf)]))
      => /\ err # NoErr
         /\ LeafValue(target, lf.ix) = LeafValue(target0, lf.ix)

\* the first letter in upper case
Capitalised(w) == <<ToUpperChar(w[1])>> \o Tail(w)

\* the spellings strconv.ParseBool takes for a word: as it is, in upper
\* case, capitalised, and its first letter in either case
Spellings(w) ==
  {w, ToUpper(w), Capitalised(w), <<w[1]>>, <<ToUpperChar(w[1])>>}

TrueSpellings == { <<"1">> } \cup Spellings(<<"t","r","u","e">>)

FalseSpellings == { <<"0">> } \cup Spellings(<<"f","a","l","s","e">>)

\* C19 as stated: a boolean value is accepted exactly when it is true or
\* false in any letter case, or 1 or 0.
C19_TrueFalseAnyCase ==
  WalkDone =>
    \A lf \in FieldsLeaves :
      (lf.kind = "bool" /\ HasKey(lf)) =>
        LET v == env[KeyOf(lf)]
        IN IF v = <<"1">> \/ ToLower(v) = <<"t","r","u","e">>
             THEN err = NoErr /\ LeafValue(target, lf.ix) = TRUE
           ELSE IF v = <<"0">> \/ ToLower(v) = <<"f","a","l","s","e">>
             THEN err = NoErr /\ LeafValue(target, lf.ix) = FALSE
           ELSE err # NoErr

\* C19, amended: a boolean value is accepted exactly when it is one of 1, t,
\* T, TRUE, true, True (the field becomes true) or 0, f, F, FALSE, false,
\* False (the field becomes false); any other token, mixed case such as tRuE
\* included, makes the walk fail with the parse error under the field's
\* path and leaves the field as it was.
C19_ParseBoolTokens ==
  WalkDone =>
    \A lf \in FieldsLeaves :
      (lf.kind = "bool" /\ HasKey(lf)) =>
        LET v == env[KeyOf(lf)]
        IN IF v \in TrueSpellings
             THEN err = NoErr /\ LeafValue(target, lf.ix) = TRUE
           ELSE IF v \in FalseSpellings
             THEN err = NoErr /\ LeafValue(target, lf.ix) = FALSE
           ELSE /\ FailedOn(<<"e","n","a","b","l","e","d">>, "parse bool")
                /\ LeafValue(target, lf.ix) = LeafValue(target0, lf.ix)

\* the walk rejected tRuE for the boolean field
C19_Witness ==
  /\ WalkDone
  /\ \E lf \in FieldsLeaves :
       /\ lf.kind = "bool" /\ HasKey(lf)
       /\ env[KeyOf(lf)] = <<"t","R","u","E">>
       /\ err # NoErr

\* the duration literals of the runs and their nanoseconds
DurationLiterals ==
  { [lit |-> <<"1","s">>, ns |-> 1000000000],
    [lit |-> <<"1","s","5","0","0","m","s">>, ns |-> 1500000000],
    [lit |-> <<"9","0","m","s">>, ns |-> 90000000],
    [lit |-> <<"0">>, ns |-> 0] }

\* C20: a value for the duration field that is a duration literal sets the
\* field to that duration; any other value, a plain integer other than 0
\* included, makes the walk fail with the parse error under the field's path
\* and leaves the field as it was.
C20_DurationLiteral ==
  WalkDone =>
    \A lf \in FieldsLeaves :
      (lf.kind = "duration" /\ HasKey(lf)) =>
        IF \E d \in DurationLiterals : d.lit = env[KeyOf(lf)]
        THEN /\ err = NoErr
             /\ \E d \in DurationLiterals :
                  d.lit = env[KeyOf(lf)] /\ LeafValue(target, lf.ix) = d.ns
        ELSE /\ FailedOn(<<"t","i","m","e","o","u","t">>, "parse duration")
             /\ LeafValue(target, lf.ix) = LeafValue(target0, lf.ix)

\* the walk set the duration field from the literal 1s500ms
C20_Witness ==
  /\ WalkDone /\ err = NoErr
  /\ \E lf \in FieldsLeaves :
       /\ lf.kind = "duration" /\ HasKey(lf)
       /\ env[KeyOf(lf)] = <<"1","s","5","0","0","m","s">>
       /\ LeafValue(target, lf.ix) = 1500000000
       /\ LeafValue(target0, lf.ix) = 250

----------------------------------------------------------------------------
(* Repeated calls                                                           *)

\* what the sources delivered to a call: which opened, which failed
Delivered(tr) ==
  {tr[i] : i \in {j \in 1..Len(tr) : tr[j].ev \in {"opened", "not_exist", "read_failed"}}}

\* the second call has returned
SecondDone == first.called /\ pc = "done"

\* the second call was given the bytes the first was given
SameInputs == Delivered(trace) = Delivered(first.trace) /\ docs = first.docs

C14_RepeatedCallSameResult ==
  SecondDone => (err = first.err /\ target = first.target)

----------------------------------------------------------------------------
(* Concurrent calls                                                         *)

\* the locals of the goroutine that runs
Running ==
  Locals(3 - other.id, pc, opts, target, target0, layer, data, err, streams,
         trace, lookups, docs, visits)

\* the outcome of a call run alone: what LoadConfig makes of the call's
\* options and target, the bytes its sources delivered (L.trace, L.docs) and
\* the environment e, one phase after the other
RECURSIVE SoloLayers(_, _, _, _)
SoloLayers(L, e, i, t) ==
  IF i > 2 THEN
    LET r == applyEnvOverrides(e, t, ConfigType, L.opts.EnvPrefix,
                               L.opts.Delimiter, L.opts.NormalizeDash, <<>>)
    IN [err |-> IF r.err # NoErr THEN Wrap("apply env overrides", <<>>, r.err)
                ELSE NoErr,
        target |-> r.val]
  ELSE
    LET l    == <<"base", "local">>[i]
        name == IF l = "base" THEN "load base config" ELSE "load local config"
        src  == IF l = "base" THEN L.opts.BaseSource ELSE L.opts.LocalSource
        evs  == {L.trace[k] : k \in 1..Len(L.trace)}
        r    == yamlUnmarshal(L.docs[l], t)
    IN IF l = "local" /\ src = "nil" THEN SoloLayers(L, e, i + 1, t)
       ELSE IF Event("not_exist", l) \in evs
         THEN [err |-> << Msg(name, <<>>), Msg("open config source", <<>>),
                         Msg("not_exist", <<>>) >>,
               target |-> t]
       ELSE IF Event("read_failed", l) \in evs
         THEN [err |-> << Msg(name, <<>>), Msg("read config data", <<>>),
                         Msg("io error", <<>>) >>,
               target |-> t]
       ELSE IF r.err # NoErr
         THEN [err |-> <<Msg(name, <<>>)>> \o r.err, target |-> r.val]
       ELSE SoloLayers(L, e, i + 1, r.val)

SoloResult(L, e) ==
  IF validateOptions(L.opts) # NoErr
    THEN [err |-> validateOptions(L.opts), target |-> L.target0]
  ELSE SoloLayers(L, e, 1, L.target0)

\* C15: under every interleaving of two calls with their own options and
\* targets, a call that has returned holds the error and the target it
\* would hold had it run alone on the same inputs, and never touched more
\* sources than its own two.
C15_NoInterference ==
  \A L \in {Running, other} :
    L.pc = "done" =>
      /\ L.err = SoloResult(L, env).err
      /\ L.target = SoloResult(L, env).target
      /\ Len(L.trace) <= 4

\* a call ran from start to end, with both layers and an override, while the
\* other call, with other options, was in the middle of its base layer
C15_Witness ==
  /\ pc = "done" /\ err = NoErr
  /\ opts.LocalSource # "nil"
  /\ docs.base = Bytes(DocFull) /\ docs.local = Bytes(DocPort)
  /\ E_P_APP__PORT \in DOMAIN env
  /\ other.pc = "decode" /\ other.opts.LocalSource = "nil"
  /\ other.data = Bytes(DocPort)
  /\ other.target0 = PresetConfig /\ target0 = ZeroConfig

----------------------------------------------------------------------------
(* The target is never reset                                                *)

\* no decoded document defines the leaf and no variable has its key
Untouched(lf) ==
  /\ ~Defines(docs.base, lf)
  /\ ~(Event("decoded", "local") \in Events /\ Defines(docs.local, lf))
  /\ ExpectedKey(opts, lf) \notin DOMAIN env

\* C26: after a successful LoadConfig, a leaf that no document layer defines
\* and no variable matches holds the value the caller's target held before
\* the call.
C26_TargetNotReset ==
  Succeeded =>
    \A lf \in Leaves : Untouched(lf) => LeafValue(target, lf.ix) = LeafValue(target0, lf.ix)

\* a successful load over a target with defaults, where the documents set
\* the port only: the name keeps the caller's default
C26_Witness ==
  /\ Succeeded /\ lookups # {}
  /\ target0 = PresetConfig
  /\ docs.base = Bytes(DocPort)
  /\ target # target0
  /\ \E lf \in Leaves :
       /\ lf.path = K_app_name /\ Untouched(lf)
       /\ LeafValue(target, lf.ix) = <<"o","l","d">>

----------------------------------------------------------------------------
(* Variables set to the empty string                                        *)

ParseErrors == {"parse int", "parse uint", "parse bool", "parse duration"}

----------------------------------------------------------------------------
(* The walk stops at the first failing field                                *)

\* the place of a leaf of Config in depth-first declaration order
Rank(lf) ==
  CASE lf.ix = <<1, 1>> -> 1
    [] lf.ix = <<1, 2>> -> 2
    [] lf.ix = <<2>>    -> 3
    [] lf.ix = <<3>>    -> 4

\* the leaf has a variable that cannot be stored in it
Fails(lf) ==
  /\ ExpectedKey(opts, lf) \in DOMAIN env
  /\ ~WellFormed(lf.kind, env[ExpectedKey(opts, lf)])

\* C25: when some leaf has a variable that cannot be stored, the walk fails
\* with "set field <path>" of the first such leaf in depth-first declaration
\* order; the leaves before it hold their environment values (their document
\* values when they have no variable), it and the leaves after it hold their
\* document values, and no key of a leaf after it was looked up.
C25_StopsAtFirstFailure ==
  WalkRan =>
    IF \E lf \in Leaves : Fails(lf)
    THEN LET f == CHOOSE lf \in Leaves :
                    Fails(lf) /\ \A g \in Leaves : Fails(g) => Rank(lf) <= Rank(g)
         IN /\ Len(err) >= 2
            /\ err[1] = Msg("apply env overrides", <<>>)
            /\ err[2] = Msg("set field", f.path)
            /\ lookups = {ExpectedKey(opts, lf) : lf \in {g \in Leaves : Rank(g) <= Rank(f)}}
            /\ \A lf \in Leaves :
                 LeafValue(target, lf.ix) =
                   IF Rank(lf) < Rank(f) /\ ExpectedKey(opts, lf) \in DOMAIN env
                   THEN Denoted(lf.kind, env[ExpectedKey(opts, lf)])
                   ELSE DocumentsValue(lf)
    ELSE err = NoErr

\* the walk wrote app.name from its variable, then failed on app.port: the
\* call failed and the name stays written
C25_Witness ==
  /\ WalkRan
  /\ opts.EnvPrefix = P_ /\ opts.Delimiter = DD
  /\ DOMAIN env = {E_P_APP__NAME, E_P_APP__PORT}
  /\ env[E_P_APP__PORT] = <<"x">>
  /\ err # NoErr /\ err[2] = Msg("set field", K_app_port)
  /\ docs.base = Bytes(DocFull)
  /\ target[1][1] = env[E_P_APP__NAME]
  /\ target[1][2] = 8080
  /\ E_P_DEBUG \notin lookups

----------------------------------------------------------------------------
(* Fields the walk leaves out                                              *)

\* the walk over one of the targets above has returned
Walked == pc = "done"

\* the dotted paths of the leaves consulted, and the positions in visits
VisitedPaths == {visits[i].path : i \in 1..Len(visits)}

\* the non-struct fields of a struct type at any depth below struct-valued
\* fields: position, dotted path, and whether the field or a field above it
\* is unexported or tagged yaml:"-"
RECURSIVE Members(_, _, _, _)
Members(typ, ix, path, skipped) ==
  UNION { LET f    == typ[i]
              name == IF yamlKey(f) = <<"-">> THEN ToLower(f.name) ELSE yamlKey(f)
              here == IF path = <<>> THEN name ELSE path \o <<".">> \o name
              skip == skipped \/ f.name[1] \notin {UpperLetters[k] : k \in 1..Len(UpperLetters)}
                              \/ f.tag = <<"-">>
          IN IF f.kind = "struct" THEN Members(f.fields, Append(ix, i), here, skip)
             ELSE {[ix |-> Append(ix, i), path |-> here, skipped |-> skip]} :
          i \in 1..Len(typ) }

\* the names under which a variable for the path may be set
PathEnvNames(path) ==
  { pre \o (IF dashed THEN ReplaceAll(ReplaceAll(ToUpper(path), ".", sep), "-", U_)
            ELSE ReplaceAll(ToUpper(path), ".", sep)) :
      pre \in {o.EnvPrefix : o \in WalkOptions},
      sep \in {DD, U_, Dash, <<".">>},
      dashed \in BOOLEAN }

----------------------------------------------------------------------------
(* A pointer-to-struct field                                               *)

K_sub == <<"s","u","b">>

K_sub_host == <<"s","u","b",".","h","o","s","t">>

\* the key of WithPtr's field Sub: the prefix, then the name in upper case
SubKey == opts.EnvPrefix \o <<"S","U","B">>

\* C29: the walk does not descend into the pointer-to-struct field Sub: the
\* field is looked up under its own key like a leaf, no field below it is
\* consulted or looked up and the pointer keeps its document value; a
\* variable at the pointer's own key makes the call fail with "unsupported
\* field type" naming the pointer type at "set field sub", and without one
\* the call succeeds.
C29_PointerFieldIsLeaf ==
  (Walked /\ TypeOf(target0) = WithPtrType) =>
    /\ SubKey \in lookups
    /\ K_sub \in VisitedPaths
    /\ K_sub_host \notin VisitedPaths
    /\ PathEnvNames(K_sub_host) \cap lookups = {}
    /\ target[2] = target0[2]
    /\ IF SubKey \in DOMAIN env
       THEN /\ err = << Msg("apply env overrides", <<>>), Msg("set field", K_sub),
                        Msg("unsupported field type", <<"*","m","a","i","n",".","S","u","b">>) >>
            /\ target = target0
       ELSE err = NoErr

\* Sub points to a struct, a variable is set at Sub's own key: the call
\* failed
C29_Witness ==
  /\ Walked
  /\ TypeOf(target0) = WithPtrType
  /\ target0[2] # <<>>
  /\ opts.Delimiter = DD
  /\ DOMAIN env = {SubKey}
  /\ err # NoErr

----------------------------------------------------------------------------
(* NormalizeDash                                                           *)

\* the leaves of Dashed: position and upper-case path segments
DashedLeaves ==
  { [ix |-> <<1>>, segs |-> << <<"A","P","P","-","N","A","M","E">> >>],
    [ix |-> <<2, 1>>,
     segs |-> << <<"M","Y","-","D","B">>, <<"H","O","S","T","-","N","A","M","E">> >>] }

\* the key of a leaf with '-' written as '_' within the segments only when
\* NormalizeDash is set: the prefix and the delimiter between the segments
\* as configured
DashedKey(o, lf) ==
  LET seg(i) == IF o.NormalizeDash THEN ReplaceAll(lf.segs[i], "-", U_) ELSE lf.segs[i]
      sep    == IF o.Delimiter = <<>> THEN <<".">> ELSE o.Delimiter
  IN o.EnvPrefix \o seg(1) \o (IF Len(lf.segs) = 2 THEN sep \o seg(2) ELSE <<>>)

\* C22: a leaf whose name contains '-' is looked up under, and overridden
\* by, the variable named by the prefix as configured, then the upper-case
\* segments joined by the delimiter as configured, each '-' within the
\* segments written as '_' when NormalizeDash is set and kept when it is not.
C22_DashOnlyInSegments ==
  (Walked /\ TypeOf(target0) = DashedType) =>
    \A lf \in DashedLeaves :
      /\ DashedKey(opts, lf) \in lookups
      /\ LeafValue(target, lf.ix) =
           IF DashedKey(opts, lf) \in DOMAIN env THEN env[DashedKey(opts, lf)]
           ELSE LeafValue(target0, lf.ix)

----------------------------------------------------------------------------
(* Dotted paths of distinct leaves                                         *)

\* the fields of a struct type the walk does not skip
WalkedFields(typ) ==
  { i \in 1..Len(typ) :
      /\ typ[i].name[1] \in {UpperLetters[k] : k \in 1..Len(UpperLetters)}
      /\ typ[i].tag # <<"-">> }

\* no name the walk uses, at any depth, contains '.', and the fields of one
\* struct have different names
RECURSIVE CleanNames(_)
CleanNames(typ) ==
  /\ \A i \in WalkedFields(typ) :
       /\ IndexOf(yamlKey(typ[i]), ".") = 0
       /\ typ[i].kind = "struct" => CleanNames(typ[i].fields)
  /\ \A i, j \in WalkedFields(typ) : i # j => yamlKey(typ[i]) # yamlKey(typ[j])

\* the leaves the walk consulted have pairwise different dotted paths
DistinctPaths ==
  \A i, j \in 1..Len(visits) : i # j => visits[i].path # visits[j].path

\* C23 as stated: for every target structure, two distinct leaf fields never
\* have the same dotted path.
C23_DistinctLeavesDistinctPaths == Walked => DistinctPaths

\* C23: for a target structure in which no field name contains '.' and the
\* fields of one struct have different names, two distinct leaf fields never
\* have the same dotted path.
C23_CleanNamesDistinctPaths ==
  (Walked /\ CleanNames(TypeOf(target0))) => DistinctPaths

\* the walk consulted the four leaves of Skips, among them host and db.host
C23_Witness ==
  /\ Walked
  /\ TypeOf(target0) = SkipsType
  /\ CleanNames(SkipsType)
  /\ Len(visits) = 4
  /\ <<"h","o","s","t">> \in VisitedPaths
  /\ <<"d","b",".","h","o","s","t">> \in VisitedPaths
  /\ env # <<>>

----------------------------------------------------------------------------
(* Environment keys of distinct paths                                      *)

Chars(s) == {s[i] : i \in 1..Len(s)}

\* a name or a path as the key spells it: in upper case, '-' written as '_'
\* under NormalizeDash
InKey(o, s) ==
  IF o.NormalizeDash THEN ReplaceAll(ToUpper(s), "-", U_) ELSE ToUpper(s)

\* the delimiter as the key spells it
DelimiterInKey(o) ==
  IF o.NormalizeDash THEN ReplaceAll(o.Delimiter, "-", U_) ELSE o.Delimiter

\* no name the walk uses contains '.' or, as the key spells it, a character
\* of the delimiter as the key spells it
RECURSIVE Separable(_, _)
Separable(o, typ) ==
  \A i \in WalkedFields(typ) :
    /\ IndexOf(yamlKey(typ[i]), ".") = 0
    /\ Chars(InKey(o, yamlKey(typ[i]))) \cap Chars(DelimiterInKey(o)) = {}
    /\ typ[i].kind = "struct" => Separable(o, typ[i].fields)

\* C28 as stated: with a non-empty Delimiter, two leaves with different
\* dotted paths are looked up under different keys.
C28_DistinctPathsDistinctKeys ==
  (Walked /\ opts.Delimiter # <<>>) =>
    \A i, j \in 1..Len(visits) :
      visits[i].path # visits[j].path => visits[i].key # visits[j].key

\* C28: with a non-empty Delimiter, when no field name contains '.' or, as
\* the key spells it, a character of the delimiter, two leaves whose dotted
\* paths differ as the key spells them (in more than letter case, and in more
\* than '-' against '_' under NormalizeDash) are looked up under different
\* keys.
C28_SeparableNamesDistinctKeys ==
  (Walked /\ opts.Delimiter # <<>> /\ Separable(opts, TypeOf(target0))) =>
    \A i, j \in 1..Len(visits) :
      InKey(opts, visits[i].path) # InKey(opts, visits[j].path)
        => visits[i].key # visits[j].key

\* Skips with the delimiter "__": the variable of db.host overrode Db.Host and
\* left the top-level Host alone
C28_Witness ==
  /\ Walked
  /\ TypeOf(target0) = SkipsType
  /\ opts.Delimiter = DD
  /\ Separable(opts, SkipsType)
  /\ DOMAIN env = {opts.EnvPrefix \o <<"D","B","_","_","H","O","S","T">>}
  /\ Len(visits) = 4
  /\ target[8][1] = WalkValue
  /\ target[7] = target0[7]

----------------------------------------------------------------------------
(* ForceLowerYAML                                                           *)

\* the document has a key that is the leaf's path up to letter case
DefinesAnyCase(d, lf) ==
  d.syntax /\ \E k \in DOMAIN d.doc : ToLower(k) = lf.path

ValueAnyCase(d, lf) ==
  d.doc[CHOOSE k \in DOMAIN d.doc : ToLower(k) = lf.path].v

\* what the documents give a leaf when their keys are matched in lower case
LoweredValue(lf) ==
  IF Event("decoded", "local") \in Events /\ DefinesAnyCase(docs.local, lf)
    THEN ValueAnyCase(docs.local, lf)
  ELSE IF DefinesAnyCase(docs.base, lf) THEN ValueAnyCase(docs.base, lf)
  ELSE LeafValue(target0, lf.ix)

\* C24: with ForceLowerYAML set, after a successful call a leaf without an
\* environment variable holds the value of the document key that is its
\* path up to letter case (the local document's, else the base document's),
\* else the value the caller put there.
C24_ForceLowerDecodesAnyCase ==
  (Succeeded /\ opts.ForceLowerYAML) =>
    \A lf \in Leaves :
      ExpectedKey(opts, lf) \notin DOMAIN env =>
        LeafValue(target, lf.ix) = LoweredValue(lf)

====
